---- MODULE Spec2Model ----
(***************************************************************************)
(* A model of the uncflow telemetry agent: the CHA monitor with its event  *)
(* rotation scheduler, the counter-delta arithmetic of the monitors, the   *)
(* IIO monitor and exporter, the RDT monitor and exporter, and the         *)
(* orchestrator's collection loop.                                         *)
(*                                                                         *)
(* Time is counted in whole seconds.  MSR reads and writes can fail; a     *)
(* failed write leaves the register as it was.                             *)
(***************************************************************************)
EXTENDS Integers, Sequences, FiniteSets, TLC

VARIABLES
    \* ---- CHA monitor (counters/cha/monitor.rs) ----
    now,            \* the clock (Instant::now()), in seconds
    scheduler,      \* EventScheduler: groups, current_index, last_rotation, rotation_interval
    prev_counters,  \* ChaMonitor.prev_counters: cha_id -> ChaRawCounters
    event_data,     \* ChaMonitor.event_data: group name -> RawEventData
    collection_start, \* ChaMonitor.collection_start
    chaMsr,         \* the CHA boxes' control and filter registers
    chaCall,        \* what the last call did (collect or rotate), for the properties
    chaHist,        \* counts over the run: calls, rotations, faults, ticks per group
    \* ---- counter deltas ----
    deltaPrev,      \* the previous sample of a counter
    deltaCur,       \* the current sample of the counter
    deltaOut,       \* the delta each monitor computes from the two
    \* ---- IIO exporter (prom/iio.rs) and monitor (counters/iio/monitor.rs) ----
    iioMonitors,    \* IioMetricExporter.monitors: the monitor built by ::new
    iioGauges,      \* IioMetricExporter.gauges: metric -> value and tick of the last set
    iioUnits,       \* the IIO units' box control and counter control registers
    iioClock,       \* the clock, in seconds
    iioCall,        \* what the last collect did, for the properties
    iioHist,        \* counts over the run: ticks, warnings, successful ticks
    \* ---- RDT exporter (prom/rdt.rs) and monitor (counters/rdt/monitor.rs) ----
    rdtMonitor,     \* RdtMonitor: per-core vectors, core_to_rmid, rmid_used, sockets
    rdtGauges,      \* socket_gauges and core_gauges: (scope, id, metric) -> value and tick
    rmid_refresh_counter, \* RdtMetricExporter.rmid_refresh_counter
    rdtMsr,         \* IA32_PQR_ASSOC of every core and IA32_QM_EVTSEL
    rdtCall,        \* what the last collect did, for the properties
    rdtHist,        \* counts over the run: ticks
    \* ---- one RdtMonitor from new to Drop, and its RMID pool ----
    rmMon,          \* the RdtMonitor
    rmMsr,          \* IA32_PQR_ASSOC and IA32_QM_EVTSEL of the machine's CPUs
    rmPhase,        \* "pool", "new", "ready", "failed" (initialize returned Err), "dropped"
    rmCall,         \* what the last call did, for the properties
    rmHist,         \* calls made, ids handed out and not released, ids released
    \* ---- hardware access (common/msr.rs, common/affinity.rs, common/pci.rs) ----
    hwThreads,      \* per thread: where it is in Msr::read / Msr::write / Pci::read32
    hwHandles,      \* Msr.handles / Pci.handles: key -> handle (0: no entry)
    hwLock,         \* the RwLock of the map: the readers and the writer (0: none)
    hwFiles,        \* the handles created: key, holder of the file mutex, file offset
    hwMask,         \* per thread: its CPU affinity mask
    hwMcfg,         \* Mcfg.group_bus_map: the addresses resolved
    hwCalls,        \* calls started so far
    hwAllowed,      \* the CPUs the process may run on (its cpuset)
    \* ---- collection loop (orchestrator/collector.rs) ----
    loopExporters,  \* the exporters MetricCollector::new left as Some
    loopTasks,      \* the tasks of the running tick, in spawn order
    loopGauges,     \* per exporter: the tick its gauges were last written in
    loopCall,       \* what the last step did, for the properties
    loopHist,       \* tick count, exporters whose last collection failed
    \* ---- the agent from main to exit (main.rs, orchestrator/collector.rs) ----
    agent,          \* the collector, its interval timer, its tasks, the cancellation token
    \* ---- the MCFG table (common/pci.rs) ----
    mcfg,           \* the table file, the Lazy<Result<Mcfg>> instance, the last call
    \* ---- IRP monitor (counters/irp/monitor.rs, common/arch.rs) ----
    irp,            \* the CPUID word, CPU_ARCH, and the last IrpMetricExporter::collect
    \* ---- register layouts (uncflow-raw/src/register.rs, arch/skylake) ----
    regLayout,\* a register struct value, a 64-bit word, and what the layout made of them
    \* ---- CHA metric calculator (metrics/cha/calculator.rs) ----
    calc,           \* the raw event data of a hit and a miss event, and the last value calculated from them
    \* ---- programming and sampling order (IIO, IRP) ----
    measurement,    \* the hardware accesses of the last IIO or IRP collection, in order
    \* ---- PCI address resolution (Mcfg::find_group_bus) ----
    busScan         \* the MCFG records, the devices of the machine, the resolution cache and the last call

chaVars == <<now, scheduler, prev_counters, event_data, collection_start,
             chaMsr, chaCall, chaHist>>
deltaVars == <<deltaPrev, deltaCur, deltaOut>>
iioVars == <<iioMonitors, iioGauges, iioUnits, iioClock, iioCall, iioHist>>
rdtVars == <<rdtMonitor, rdtGauges, rmid_refresh_counter, rdtMsr, rdtCall, rdtHist>>
loopVars == <<loopExporters, loopTasks, loopGauges, loopCall, loopHist>>
rmVars == <<rmMon, rmMsr, rmPhase, rmCall, rmHist>>
hwVars == <<hwThreads, hwHandles, hwLock, hwFiles, hwMask, hwMcfg, hwCalls, hwAllowed>>
agVars == <<agent>>
mcfgVars == <<mcfg>>
irpVars == <<irp>>
regVars == <<regLayout>>
calcVars == <<calc>>
measVars == <<measurement>>
busVars == <<busScan>>

vars == <<chaVars, deltaVars, iioVars, rdtVars, loopVars, rmVars, hwVars, agVars, mcfgVars, irpVars, regVars, calcVars, measVars, busVars>>

\* What a step of one part of the agent leaves alone.
notCha == <<hwVars, deltaVars, iioVars, rdtVars, loopVars, rmVars, agVars, mcfgVars, irpVars, regVars, calcVars, measVars, busVars>>
notDelta == <<hwVars, chaVars, iioVars, rdtVars, loopVars, rmVars, agVars, mcfgVars, irpVars, regVars, calcVars, measVars, busVars>>
notIio == <<hwVars, chaVars, deltaVars, rdtVars, loopVars, rmVars, agVars, mcfgVars, irpVars, regVars, calcVars, measVars, busVars>>
notRdt == <<hwVars, chaVars, deltaVars, iioVars, loopVars, rmVars, agVars, mcfgVars, irpVars, regVars, calcVars, measVars, busVars>>
notLoop == <<hwVars, chaVars, deltaVars, iioVars, rdtVars, rmVars, agVars, mcfgVars, irpVars, regVars, calcVars, measVars, busVars>>
notRm == <<hwVars, chaVars, deltaVars, iioVars, rdtVars, loopVars, agVars, mcfgVars, irpVars, regVars, calcVars, measVars, busVars>>
notHw == <<chaVars, deltaVars, iioVars, rdtVars, loopVars, rmVars, agVars, mcfgVars, irpVars, regVars, calcVars, measVars, busVars>>
notAg == <<chaVars, deltaVars, iioVars, rdtVars, loopVars, rmVars, hwVars, mcfgVars, irpVars, regVars, calcVars, measVars, busVars>>
notMcfg == <<chaVars, deltaVars, iioVars, rdtVars, loopVars, rmVars, hwVars, agVars, irpVars, regVars, calcVars, measVars, busVars>>
notIrp == <<chaVars, deltaVars, iioVars, rdtVars, loopVars, rmVars, hwVars, agVars, mcfgVars, regVars, calcVars, measVars, busVars>>
notReg == <<chaVars, deltaVars, iioVars, rdtVars, loopVars, rmVars, hwVars, agVars, mcfgVars, irpVars, calcVars, measVars, busVars>>
notCalc == <<chaVars, deltaVars, iioVars, rdtVars, loopVars, rmVars, hwVars, agVars, mcfgVars, irpVars, regVars, measVars, busVars>>
notMeas == <<chaVars, deltaVars, iioVars, rdtVars, loopVars, rmVars, hwVars, agVars, mcfgVars, irpVars, regVars, calcVars, busVars>>
notBus == <<chaVars, deltaVars, iioVars, rdtVars, loopVars, rmVars, hwVars, agVars, mcfgVars, irpVars, regVars, calcVars, measVars>>

\* ------------------------------------------------------------------ bounds

\* Number of CHA boxes of the modelled socket (cha_count).
ChaCount == 2
\* Seconds that may pass between ChaMonitor::new and the first collect.
MaxStartDelay == 1
\* Number of collect calls of a short run.
MaxTicks == 4
\* Number of MSR errors injected in a short run / in the 44-second run.
MaxFaults == 1
RunFaults == 1
\* The scheduler on its own: groups added, rotate() calls, clock.
MaxSchedGroups == 4
MaxRotations == 9
MaxSchedTime == 3

\* ------------------------------------------------------- helpers

Boxes == 0 .. (ChaCount - 1)

Pow2(n) == 2 ^ n

SeqSum(s) ==
    LET RECURSIVE go(_)
        go(i) == IF i > Len(s) THEN 0 ELSE s[i] + go(i + 1)
    IN go(1)

\* u64::saturating_sub
saturating_sub(a, b) == IF a >= b THEN a - b ELSE 0

\* ---------------------------------------------- CHA event catalog

\* TransactionType and its opcodes (opc0, opc1).
TransactionTypes ==
    << [name |-> "PCIeRead",         opc0 |-> 542, opc1 |-> 0],
       [name |-> "PCIeFullWrite",    opc0 |-> 584, opc1 |-> 0],
       [name |-> "PCIePartialWrite", opc0 |-> 585, opc1 |-> 0],
       [name |-> "PCIeWriteBack",    opc0 |-> 404, opc1 |-> 0],
       [name |-> "DRDRead",          opc0 |-> 514, opc1 |-> 0],
       [name |-> "RFO",              opc0 |-> 512, opc1 |-> 0],
       [name |-> "ItoM",             opc0 |-> 516, opc1 |-> 0],
       [name |-> "CLFlush",          opc0 |-> 516, opc1 |-> 0],
       [name |-> "WbMtoI",           opc0 |-> 452, opc1 |-> 0],
       [name |-> "RxCIRQ",           opc0 |-> 384, opc1 |-> 0],
       [name |-> "RxCPRQ",           opc0 |-> 385, opc1 |-> 0] >>

\* BasicEventType::event_code and ::umask
event_code(basic) ==
    CASE basic = "Occupancy" -> 54
      [] basic = "Insert" -> 53
      [] basic = "ClockTicks" -> 0

umask(basic, is_hit) ==
    CASE basic = "ClockTicks" -> 0
      [] is_hit -> 20
      [] OTHER -> 36

\* ChaEventConfig::transaction
transaction(trans_type, is_hit) ==
    [ name   |-> <<trans_type.name, IF is_hit THEN "Hit" ELSE "Miss">>,
      events |-> << <<event_code("Occupancy"), umask("Occupancy", is_hit)>>,
                    <<event_code("Insert"), umask("Insert", is_hit)>>,
                    <<event_code("ClockTicks"), 0>>,
                    <<0, 0>> >>,
      opc0   |-> trans_type.opc0,
      opc1   |-> trans_type.opc1,
      state  |-> 0 ]

\* ChaEventConfig::all_transactions: Hit then Miss of every type
all_transactions ==
    [ i \in 1 .. (2 * Len(TransactionTypes)) |->
        transaction(TransactionTypes[(i + 1) \div 2], i % 2 = 1) ]

\* EventGroup::from_config
from_config(config) ==
    [ name |-> config.name, config |-> config, counter_configs |-> config.events ]

\* ------------------------------------------------- EventScheduler

\* EventScheduler::new at time t
EventScheduler_new(interval, t) ==
    [ groups |-> <<>>, current_index |-> 0, last_rotation |-> t,
      rotation_interval |-> interval ]

\* The scheduler's groups are held as their positions in the catalog
\* (all_transactions); GroupAt gives the EventGroup itself.
add_event_group(s, config_id) ==
    [s EXCEPT !.groups = Append(@, config_id)]

\* should_rotate() with > for >=
should_rotate_strict(s, t) == (t - s.last_rotation) > s.rotation_interval

\* last_rotation.elapsed() >= rotation_interval, read at time t
should_rotate(s, t) == (t - s.last_rotation) >= s.rotation_interval

\* groups.get(i) is Some
HasGroup(s, i) == i < Len(s.groups)

\* groups[i], a 0-based index as in the code
GroupAt(s, i) == from_config(all_transactions[s.groups[i + 1]])

\* rotate() without the wrap-around of the index
rotate_no_wrap(s, t) ==
    IF Len(s.groups) = 0
    THEN s
    ELSE [s EXCEPT !.current_index = s.current_index + 1, !.last_rotation = t]

rotate(s, t) ==
    IF Len(s.groups) = 0
    THEN s
    ELSE [s EXCEPT !.current_index = (s.current_index + 1) % Len(s.groups),
                   !.last_rotation = t]

\* Duration::from_secs(2) of ChaMonitor::new
ROTATION_INTERVAL == 2

\* setup_event_rotation: every transaction group, in catalog order
RECURSIVE AddGroups(_, _)
AddGroups(s, n) ==
    IF n = 0 THEN s
    ELSE add_event_group(AddGroups(s, n - 1), n)

setup_event_rotation(s) == AddGroups(s, Len(all_transactions))

\* ------------------------------------------- CHA box programming

\* The registers of one CHA box the monitor writes.
ChaBoxReset == [ box_ctl |-> 0, filter0 |-> 0, filter1 |-> 0, ctl |-> <<0, 0, 0, 0>> ]

\* event | (umask << 8) | (1 << 22)
event_select(event, mask) == event + mask * Pow2(8) + Pow2(22)

\* The MSR writes of program_event_group, in order.
ProgramWrites(group) ==
    LET freeze == << [reg |-> "box_ctl", idx |-> 0, value |-> 0] >>
        f0 == IF group.config.opc0 # 0
              THEN << [reg |-> "filter0", idx |-> 0, value |-> group.config.opc0] >>
              ELSE << >>
        f1 == IF group.config.state # 0
              THEN << [reg |-> "filter1", idx |-> 0,
                       value |-> group.config.state * Pow2(17)] >>
              ELSE << >>
        c(i) == LET ev == group.counter_configs[i][1]
                    um == group.counter_configs[i][2]
                IN IF ev # 0 \/ um # 0
                   THEN << [reg |-> "ctl", idx |-> i, value |-> event_select(ev, um)] >>
                   ELSE << >>
        unfreeze == << [reg |-> "box_ctl", idx |-> 0, value |-> Pow2(16)] >>
    IN freeze \o f0 \o f1 \o c(1) \o c(2) \o c(3) \o c(4) \o unfreeze

MsrWrite(box, w) ==
    CASE w.reg = "box_ctl" -> [box EXCEPT !.box_ctl = w.value]
      [] w.reg = "filter0" -> [box EXCEPT !.filter0 = w.value]
      [] w.reg = "filter1" -> [box EXCEPT !.filter1 = w.value]
      [] w.reg = "ctl"     -> [box EXCEPT !.ctl[w.idx] = w.value]

RECURSIVE ApplyWrites(_, _, _)
ApplyWrites(box, ws, n) ==
    IF n = 0 THEN box ELSE MsrWrite(ApplyWrites(box, ws, n - 1), ws[n])

\* program_event_group on one box; the failAt-th write returns the error
\* (failAt = 0: every write succeeds).
program_event_group(box, group, failAt) ==
    LET ws == ProgramWrites(group)
        done == IF failAt = 0 THEN Len(ws) ELSE failAt - 1
    IN [ ok |-> failAt = 0, box |-> ApplyWrites(box, ws, done) ]

\* for cha_id in 0..cha_count { program_event_group(cha_id, group)? }
\* with the fault, if any, at write fault.step of box fault.cha_id.
ProgramLoop(hw, group, fault) ==
    LET failBox == IF fault.kind = "write" THEN fault.cha_id ELSE ChaCount
    IN [ ok |-> fault.kind # "write",
         hw |-> [ b \in Boxes |->
                    IF b < failBox THEN program_event_group(hw[b], group, 0).box
                    ELSE IF b = failBox
                         THEN program_event_group(hw[b], group, fault.step).box
                         ELSE hw[b] ],
         issued |-> [ i \in 1 .. (IF failBox < ChaCount THEN failBox + 1 ELSE ChaCount) |->
                        [ cha_id |-> i - 1, ok |-> (i - 1) # failBox ] ] ]

\* ----------------------------------------------- CHA collection

\* What the hardware can return for the four counters of one box.
CounterSamples == { <<0, 0, 0, 0>>, <<2, 1, 3, 1>> }

\* ChaRawCounters::default()
NoCounters == <<0, 0, 0, 0>>

\* prev_counters.get(&cha_id).cloned().unwrap_or_default()
PrevOf(prev, cha_id) == IF cha_id \in DOMAIN prev THEN prev[cha_id] ELSE NoCounters

\* The delta of one counter of the CHA monitor.
ChaDelta(current, prev) == saturating_sub(current, prev)

\* Faults of one collect call: the first MSR operation that returns an error.
NoFault == [ kind |-> "none", cha_id |-> 0, step |-> 0 ]
ReadFaults == { [ kind |-> "read", cha_id |-> b, step |-> 0 ] : b \in Boxes }
WriteFaults(group) ==
    { [ kind |-> "write", cha_id |-> b, step |-> k ] :
        b \in Boxes, k \in 1 .. Len(ProgramWrites(group)) }

\* collect_current_event_group at time t; samples[b] is what read_cha_counters(b)
\* returns, and a read fault at box b makes read_cha_counters(b) return the error.
collect_current_event_group(s, prev, data, start, t, samples, fault) ==
    IF ~HasGroup(s, s.current_index)
    THEN [ ok |-> TRUE, prev |-> prev, data |-> data ]
    ELSE
    LET group == GroupAt(s, s.current_index)
        nread == IF fault.kind = "read" THEN fault.cha_id ELSE ChaCount
        duration == t - start
        aggregated == [ i \in 1 .. 4 |->
            SeqSum([ k \in 1 .. nread |->
                       ChaDelta(samples[k - 1][i], PrevOf(prev, k - 1)[i]) ]) ]
        prev2 == [ b \in (DOMAIN prev) \cup (0 .. (nread - 1)) |->
                     IF b < nread THEN samples[b] ELSE prev[b] ]
        new == [ occupancy |-> aggregated[1], insert |-> aggregated[2],
                 clockticks |-> aggregated[3], duration |-> duration ]
        data2 == [ n \in (DOMAIN data) \cup {group.name} |->
                     IF n # group.name THEN data[n]
                     ELSE IF n \in DOMAIN data
                          THEN [ occupancy  |-> data[n].occupancy + new.occupancy,
                                 insert     |-> data[n].insert + new.insert,
                                 clockticks |-> data[n].clockticks + new.clockticks,
                                 duration   |-> duration ]
                          ELSE new ]
    IN IF fault.kind = "read"
       THEN [ ok |-> FALSE, prev |-> prev2, data |-> data ]
       ELSE [ ok |-> TRUE, prev |-> prev2, data |-> data2 ]

\* The second half of ChaMonitor::collect, after collect_current_event_group
\* returned r without an error: the rotation check, rotate and the programming loop.
RotateAndProgram(s, r, hw, t, fault) ==
    IF ~should_rotate(s, t)
    THEN [ ok |-> TRUE, scheduler |-> s, prev |-> r.prev, data |-> r.data,
           hw |-> hw, issued |-> << >> ]
    ELSE IF ~HasGroup(rotate(s, t), rotate(s, t).current_index)
    THEN [ ok |-> TRUE, scheduler |-> rotate(s, t), prev |-> r.prev, data |-> r.data,
           hw |-> hw, issued |-> << >> ]
    ELSE IF fault.kind = "write"
    THEN [ ok |-> FALSE, scheduler |-> rotate(s, t), prev |-> r.prev, data |-> r.data,
           hw |-> ProgramLoop(hw, GroupAt(rotate(s, t), rotate(s, t).current_index), fault).hw,
           issued |-> ProgramLoop(hw, GroupAt(rotate(s, t), rotate(s, t).current_index), fault).issued ]
    ELSE [ ok |-> TRUE, scheduler |-> rotate(s, t), prev |-> << >>, data |-> r.data,
           hw |-> ProgramLoop(hw, GroupAt(rotate(s, t), rotate(s, t).current_index), fault).hw,
           issued |-> ProgramLoop(hw, GroupAt(rotate(s, t), rotate(s, t).current_index), fault).issued ]

\* ChaMonitor::collect at time t, given the result r of collect_current_event_group.
\* The result holds the monitor's fields and the registers as the call leaves them.
CollectFrom(s, r, hw, t, fault) ==
    IF ~r.ok
    THEN [ ok |-> FALSE, scheduler |-> s, prev |-> r.prev, data |-> r.data,
           hw |-> hw, issued |-> << >> ]
    ELSE RotateAndProgram(s, r, hw, t, fault)

collect(s, prev, data, start, hw, t, samples, fault) ==
    CollectFrom(s, collect_current_event_group(s, prev, data, start, t, samples, fault),
                hw, t, fault)

\* The faults that can strike a collect call at time t.
FaultsOf(s, t) ==
    {NoFault}
    \cup (IF HasGroup(s, s.current_index) THEN ReadFaults ELSE {})
    \cup (IF should_rotate(s, t) /\ HasGroup(rotate(s, t), rotate(s, t).current_index)
          THEN WriteFaults(GroupAt(rotate(s, t), rotate(s, t).current_index))
          ELSE {})

\* ------------------------------------------ CHA: state machine

GroupIds == 0 .. (Len(all_transactions) - 1)

NoCall == [ op |-> "none", ok |-> TRUE, group |-> 0, issued |-> << >> ]

\* ChaMonitor::new and ::initialize at time 0, every write succeeding: the
\* scheduler holds the 22 transaction groups and every box is programmed with
\* group 0.  The first collect comes up to MaxStartDelay seconds later.
InitChaFields ==
    /\ scheduler = setup_event_rotation(EventScheduler_new(ROTATION_INTERVAL, 0))
    /\ prev_counters = << >>
    /\ event_data = << >>
    /\ collection_start = 0
    /\ chaMsr = [ b \in Boxes |->
                    program_event_group(ChaBoxReset, from_config(all_transactions[1]), 0).box ]
    /\ chaCall = NoCall
    /\ chaHist = [ calls |-> 0, rotations |-> 0, faults |-> 0, read_faults |-> 0,
                   first_call |-> 0,
                   ticks |-> [ g \in GroupIds |-> 0 ] ]

ChaNew ==
    /\ now \in 0 .. MaxStartDelay
    /\ InitChaFields

\* One tick of the exporter: the interval fires (one second after the last tick;
\* the first tick fires at once) and ChaMonitor::collect runs.
ChaTickWith(limit, maxFaults, sampleSet) ==
    /\ chaHist.calls < limit
    /\ LET t == IF chaHist.calls = 0 THEN now ELSE now + 1
       IN \E samples \in [Boxes -> sampleSet] :
          \E fault \in FaultsOf(scheduler, t) :
             /\ fault.kind # "none" => chaHist.faults < maxFaults
             /\ \E r \in { collect(scheduler, prev_counters, event_data,
                                    collection_start, chaMsr, t, samples, fault) } :
                LET g == scheduler.current_index
                IN /\ now' = t
                   /\ scheduler' = r.scheduler
                   /\ prev_counters' = r.prev
                   /\ event_data' = r.data
                   /\ chaMsr' = r.hw
                   /\ chaCall' = [ op |-> "collect", ok |-> r.ok, group |-> g,
                                   issued |-> r.issued ]
                   /\ chaHist' = [ chaHist EXCEPT
                         !.calls = @ + 1,
                         !.rotations = IF r.scheduler # scheduler THEN @ + 1 ELSE @,
                         !.faults = IF fault.kind # "none" THEN @ + 1 ELSE @,
                         !.read_faults = IF fault.kind = "read" THEN @ + 1 ELSE @,
                         !.first_call = IF chaHist.calls = 0 THEN t ELSE @,
                         !.ticks[g] = @ + 1 ]
    /\ UNCHANGED <<collection_start, notCha>>

ChaTick == ChaTickWith(MaxTicks, MaxFaults, CounterSamples)

NextCha == ChaTick


\* The 44-second run: one collect per second, twice as many as there are groups,
\* the hardware counters reading the same sample at every read.
RunTicks == 2 * Len(all_transactions)

RunSamples == { <<2, 1, 3, 1>> }

ChaRunTick == ChaTickWith(RunTicks, RunFaults, RunSamples)

NextChaRun == ChaRunTick


\* ---------------------------------- the scheduler on its own

\* An EventScheduler built at time 0 to which n groups were added, as in
\* test_event_scheduler (n = 2 there).
SchedNew ==
    /\ now = 0
    /\ \E n \in 0 .. MaxSchedGroups :
         scheduler = AddGroups(EventScheduler_new(ROTATION_INTERVAL, 0), n)
    /\ prev_counters = << >>
    /\ event_data = << >>
    /\ collection_start = 0
    /\ chaMsr = [ b \in Boxes |-> ChaBoxReset ]
    /\ chaCall = NoCall
    /\ chaHist = [ calls |-> 0, rotations |-> 0, faults |-> 0, read_faults |-> 0,
                   first_call |-> 0,
                   ticks |-> [ g \in GroupIds |-> 0 ] ]

\* A call of EventScheduler::rotate.
SchedRotate ==
    /\ chaHist.rotations < MaxRotations
    /\ scheduler' = rotate(scheduler, now)
    /\ chaCall' = [ op |-> "rotate", ok |-> TRUE, group |-> scheduler.current_index,
                    issued |-> << >> ]
    /\ chaHist' = [ chaHist EXCEPT !.rotations = @ + 1 ]
    /\ UNCHANGED <<now, prev_counters, event_data, collection_start, chaMsr, notCha>>

\* Time passes.
SchedAdvance ==
    /\ now < MaxSchedTime
    /\ now' = now + 1
    /\ chaCall' = NoCall
    /\ UNCHANGED <<scheduler, prev_counters, event_data, collection_start, chaMsr, chaHist, notCha>>

NextSched == SchedRotate \/ SchedAdvance


\* ------------------------------------------------ counter deltas

\* The counter width the delta arithmetic is checked at (the units' counters are
\* 48, 36 and 32 bits wide; the arithmetic is the same at every width).
WidthBits == 4

CounterValues == 0 .. (Pow2(WidthBits) - 1)

\* (current - previous) mod 2^W
WrapDelta(current, prev, bits) == (current - prev) % Pow2(bits)

\* ImcMonitor::collect: current.read_count.saturating_sub(prev.read_count)
ImcDelta(current, prev) == saturating_sub(current, prev)

\* IioMonitor::collect_pcie_bandwidth: the in_delta / out_delta branches
IioPcieDelta(current, last, bits) ==
    IF current >= last THEN current - last ELSE Pow2(bits) - last + current

\* RdtMonitor::update_socket_metrics: local_delta / remote_delta
RdtDelta(current, prev) == IF current >= prev THEN current - prev ELSE current

DeltasOf(current, prev) ==
    [ imc |-> ImcDelta(current, prev),
      cha |-> ChaDelta(current, prev),
      iio |-> IioPcieDelta(current, prev, WidthBits),
      rdt |-> RdtDelta(current, prev) ]

\* The first sample of a counter: the previous sample is the zeroed default.
DeltaFirst ==
    /\ deltaPrev = 0
    /\ deltaCur \in CounterValues
    /\ deltaOut = DeltasOf(deltaCur, 0)

\* The next tick: the counter is read again and every monitor computes its delta.
DeltaSample ==
    /\ \E v \in CounterValues :
         /\ deltaPrev' = deltaCur
         /\ deltaCur' = v
         /\ deltaOut' = DeltasOf(v, deltaCur)
    /\ UNCHANGED notDelta

NextDelta == DeltaSample

\* ------------------------------------------------------ IIO monitor

\* uncflow-raw: IIO_CHANNEL_COUNT, IIO_PCIE_PORT_COUNT; monitor.rs: CACHELINE_SIZE
IIO_CHANNEL_COUNT == 3
IIO_PCIE_PORT_COUNT == 4
CACHELINE_SIZE == 64

\* Number of exporter ticks of a run.
MaxIioTicks == 2
\* What a free-running PCIe counter advances by in one second.
PcieRate == 5

IioChannels == 0 .. (IIO_CHANNEL_COUNT - 1)
IioPorts == 0 .. (IIO_PCIE_PORT_COUNT - 1)

\* A published value is a ratio <<numerator, denominator>> (the code's f64).
F64(n) == <<n, 1>>
Ratio(n, d) == <<n, d>>

\* IioMetric: <<variant, channel, port>>, channel and port 0 for the variants
\* that have none.
ProgrammableNames ==
    { "IIOTLBMiss", "IIOTLBFull", "IIOL1Miss", "IIOL2Miss", "IIOL3Miss",
      "IIOContextMiss", "IIOTLBHit", "IIOTLB1Miss", "IIOOccupancy", "IIOFrequency" }
ProgrammableMetrics == { <<n, 0, 0>> : n \in ProgrammableNames }
PCIeInBandwidth(ch, port) == <<"PCIeInBandwidth", ch, port>>
PCIeOutBandwidth(ch, port) == <<"PCIeOutBandwidth", ch, port>>
PcieMetrics ==
    { PCIeInBandwidth(ch, port) : ch \in IioChannels, port \in IioPorts }
    \cup { PCIeOutBandwidth(ch, port) : ch \in IioChannels, port \in IioPorts }
\* IioMetric::all
IioMetric_all == ProgrammableMetrics \cup PcieMetrics

\* IIO_EVENTS: (event, umask, ch_mask, fc_mask) of the four counters
IIO_EVENTS ==
    << [ name |-> "TLB_Miss_Group",
         events |-> << <<65, 32, 255, 7>>, <<65, 4, 255, 7>>,
                       <<65, 8, 255, 7>>, <<65, 16, 255, 7>> >> ],
       [ name |-> "TLB_Hit_Group",
         events |-> << <<65, 1, 255, 7>>, <<65, 2, 255, 7>>,
                       <<65, 64, 255, 7>>, <<65, 128, 255, 7>> >> ],
       [ name |-> "Occupancy_Group",
         events |-> << <<64, 0, 255, 7>>, <<194, 4, 255, 7>>,
                       <<213, 0, 255, 7>>, <<1, 0, 255, 7>> >> ] >>

\* IioCounterControl::default() and the struct program() builds for one counter.
\* A counter control register is kept as the fields its word holds.
IioCounterControl_default ==
    [ event_select |-> 0, unit_mask |-> 0, reset_counter |-> FALSE,
      edge_detect |-> FALSE, thread_id_enable |-> FALSE, overflow_enable |-> FALSE,
      enable |-> FALSE, invert |-> FALSE, threshold |-> 0, channel_mask |-> 0,
      fc_mask |-> 0 ]

IioCounterControl(e) ==
    [ IioCounterControl_default EXCEPT
        !.event_select = e[1], !.unit_mask = e[2], !.reset_counter = TRUE,
        !.overflow_enable = TRUE, !.enable = TRUE, !.channel_mask = e[3],
        !.fc_mask = e[4] ]

\* IioCounterControl::validate
validate(ctrl) == ctrl.threshold <= 4095 /\ ctrl.fc_mask <= 7

\* The registers of one IIO unit the monitor writes.
IioUnitReset ==
    [ box_ctl |-> 0, ctl |-> [ i \in 1 .. 4 |-> IioCounterControl_default ] ]

\* The MSR writes of IioCounterUnit::program, in order: freeze (0x100), reset
\* (0x102), the four counter controls, unfreeze (0).
IioProgramWrites(config) ==
    << [ reg |-> "box_ctl", idx |-> 0, value |-> 256 ],
       [ reg |-> "box_ctl", idx |-> 0, value |-> 258 ] >>
    \o [ i \in 1 .. 4 |->
           [ reg |-> "ctl", idx |-> i, value |-> IioCounterControl(config.events[i]) ] ]
    \o << [ reg |-> "box_ctl", idx |-> 0, value |-> 0 ] >>

IioMsrWrite(unit, w) ==
    IF w.reg = "box_ctl"
    THEN [unit EXCEPT !.box_ctl = w.value]
    ELSE [unit EXCEPT !.ctl[w.idx] = w.value]

RECURSIVE IioApplyWrites(_, _, _)
IioApplyWrites(unit, ws, n) ==
    IF n = 0 THEN unit ELSE IioMsrWrite(IioApplyWrites(unit, ws, n - 1), ws[n])

\* The number of writes program() issues before a control fails validate()
\* (all of them when every control is valid).
IioValidWrites(config) ==
    LET bad == { i \in 1 .. 4 : ~validate(IioCounterControl(config.events[i])) }
    IN IF bad = {} THEN Len(IioProgramWrites(config))
       ELSE 1 + (CHOOSE i \in bad : \A j \in bad : i <= j)

\* The writes and the valid writes of every configuration of IIO_EVENTS.
IioPrograms ==
    [ g \in 1 .. Len(IIO_EVENTS) |->
        [ name |-> IIO_EVENTS[g].name,
          writes |-> IioProgramWrites(IIO_EVENTS[g]),
          valid |-> IioValidWrites(IIO_EVENTS[g]) ] ]

IioProgramOf(config) ==
    IioPrograms[CHOOSE g \in 1 .. Len(IIO_EVENTS) : IIO_EVENTS[g].name = config.name]

\* IioCounterUnit::program on one unit; the failAt-th write returns the error
\* (failAt = 0: every write succeeds).
program(unit, config, failAt) ==
    LET p == IioProgramOf(config)
        done == IF failAt # 0 /\ failAt - 1 < p.valid THEN failAt - 1 ELSE p.valid
    IN [ ok |-> done = Len(p.writes), unit |-> IioApplyWrites(unit, p.writes, done) ]

\* IioMonitor::new
IioMonitor_new(socket) ==
    [ socket |-> socket, event_results |-> << >>, pcie_last_values |-> << >>,
      pcie_last_time |-> << >>, programmable_warned |-> FALSE ]

\* Faults of one collect_metrics call: the first failing write of the
\* programming (group, unit, step), or the first failing read of the
\* programmable counters (group, unit); and whether a read of a PCIe counter fails.
IioNoFault == [ kind |-> "none", group |-> 0, unit |-> 0, step |-> 0, pcie |-> FALSE ]
IioFaults ==
    { [ kind |-> "none", group |-> 0, unit |-> 0, step |-> 0, pcie |-> p ] :
        p \in BOOLEAN }
    \cup { [ kind |-> "program", group |-> g, unit |-> u, step |-> k, pcie |-> p ] :
             g \in 1 .. Len(IIO_EVENTS), u \in IioChannels,
             k \in 1 .. Len(IioProgramWrites(IIO_EVENTS[1])), p \in BOOLEAN }
    \cup { [ kind |-> "read", group |-> g, unit |-> u, step |-> 0, pcie |-> p ] :
             g \in 1 .. Len(IIO_EVENTS), u \in IioChannels, p \in BOOLEAN }

\* What the hardware can return for the five counters of one unit (masked to
\* the counter width by read_counters).
IioSamples == { <<0, 0, 0, 0, 0>>, <<1, 2, 3, 4, 5>> }

\* for unit in &self.units { unit.program(event_config) ... break on error }:
\* res[u] is what program() does on unit u if the loop gets to it.
IioProgramLoop(units, res) ==
    LET failed == { u \in IioChannels : ~res[u].ok }
        failUnit == IF failed = {} THEN IIO_CHANNEL_COUNT
                    ELSE CHOOSE u \in failed : \A v \in failed : u <= v
    IN [ ok |-> failed = {},
         units |-> [ u \in IioChannels |->
                       IF u <= failUnit THEN res[u].unit ELSE units[u] ] ]

IioProgramAll(units, config, g, fault) ==
    IioProgramLoop(units,
        [ u \in IioChannels |->
            program(units[u], config,
                    IF fault.kind = "program" /\ fault.group = g /\ fault.unit = u
                    THEN fault.step ELSE 0) ])

\* The loop over IIO_EVENTS of try_collect_programmable_metrics from group g on:
\* program every unit, sleep one second, read every unit, store the values.
RECURSIVE IioGroupsFrom(_, _, _, _, _)
IioAfterProgram(g, p, results, samples, fault) ==
    IF ~p.ok
    THEN [ ok |-> FALSE, event_results |-> results, units |-> p.units, sleeps |-> g - 1 ]
    ELSE IF fault.kind = "read" /\ fault.group = g
    THEN [ ok |-> FALSE, event_results |-> results, units |-> p.units, sleeps |-> g ]
    ELSE IioGroupsFrom(g + 1,
            [ n \in (DOMAIN results) \cup {IIO_EVENTS[g].name} |->
                IF n = IIO_EVENTS[g].name
                THEN [ u \in 1 .. IIO_CHANNEL_COUNT |-> samples ]
                ELSE results[n] ],
            p.units, samples, fault)

IioGroupsFrom(g, results, units, samples, fault) ==
    IF g > Len(IIO_EVENTS)
    THEN [ ok |-> TRUE, event_results |-> results, units |-> units, sleeps |-> g - 1 ]
    ELSE IioAfterProgram(g, IioProgramAll(units, IIO_EVENTS[g], g, fault),
                         results, samples, fault)

\* values.iter().map(|v| v[i]).sum(), i counted from 0 as in the code
IioSum(values, i) == SeqSum([ u \in 1 .. Len(values) |-> values[u][i + 1] ])

\* Writes of entries m into a metrics map.
MapInsert(metrics, entries) ==
    [ m \in (DOMAIN metrics) \cup (DOMAIN entries) |->
        IF m \in DOMAIN entries THEN entries[m] ELSE metrics[m] ]

\* IioMonitor::calculate_programmable_metrics
calculate_programmable_metrics(event_results, metrics) ==
    LET has(n) == n \in DOMAIN event_results
        miss == IF has("TLB_Miss_Group")
                THEN LET v == event_results["TLB_Miss_Group"]
                     IN ( <<"IIOTLBMiss", 0, 0>> :> F64(IioSum(v, 0)) )
                        @@ ( <<"IIOL1Miss", 0, 0>> :> F64(IioSum(v, 1)) )
                        @@ ( <<"IIOL2Miss", 0, 0>> :> F64(IioSum(v, 2)) )
                        @@ ( <<"IIOL3Miss", 0, 0>> :> F64(IioSum(v, 3)) )
                ELSE << >>
        hit == IF has("TLB_Hit_Group")
               THEN LET v == event_results["TLB_Hit_Group"]
                    IN ( <<"IIOTLBHit", 0, 0>> :> F64(IioSum(v, 0)) )
                       @@ ( <<"IIOContextMiss", 0, 0>> :> F64(IioSum(v, 1)) )
                       @@ ( <<"IIOTLBFull", 0, 0>> :> F64(IioSum(v, 2)) )
                       @@ ( <<"IIOTLB1Miss", 0, 0>> :> F64(IioSum(v, 3)) )
               ELSE << >>
        occ == IF has("Occupancy_Group")
                  /\ IioSum(event_results["Occupancy_Group"], 3) > 0
               THEN LET v == event_results["Occupancy_Group"]
                    IN ( <<"IIOFrequency", 0, 0>> :> Ratio(IioSum(v, 3), 1000000000) )
                       @@ ( <<"IIOOccupancy", 0, 0>> :> Ratio(IioSum(v, 0), IioSum(v, 3)) )
               ELSE << >>
    IN MapInsert(MapInsert(MapInsert(metrics, miss), hit), occ)

\* try_collect_programmable_metrics computing the metrics of the groups read
\* before a failure as well
try_collect_programmable_metrics_partial(mon, metrics, units, samples, fault) ==
    LET r == IioGroupsFrom(1, mon.event_results, units, samples, fault)
    IN [ supported |-> r.ok,
         mon |-> [mon EXCEPT !.event_results = r.event_results],
         metrics |-> calculate_programmable_metrics(r.event_results, metrics),
         units |-> r.units,
         sleeps |-> r.sleeps ]

\* IioMonitor::try_collect_programmable_metrics: the metrics are computed only
\* when every group was programmed and read.
try_collect_programmable_metrics(mon, metrics, units, samples, fault) ==
    LET r == IioGroupsFrom(1, mon.event_results, units, samples, fault)
    IN [ supported |-> r.ok,
         mon |-> [mon EXCEPT !.event_results = r.event_results],
         metrics |-> IF r.ok
                     THEN calculate_programmable_metrics(r.event_results, metrics)
                     ELSE metrics,
         units |-> r.units,
         sleeps |-> r.sleeps ]

\* The value of a free-running PCIe counter at time t, masked to the counter width.
PcieRead(ch, port, dir, t) ==
    (PcieRate * t * (1 + ch + port) + dir) % Pow2(WidthBits)

\* IioMonitor::collect_pcie_bandwidth at time t.  The bandwidth is kept in bytes
\* per second, delta * 64 / elapsed (the code divides it by 1e9 as well).
collect_pcie_bandwidth(mon, metrics, t, fault) ==
    IF fault.pcie
    THEN [ ok |-> FALSE, mon |-> mon, metrics |-> metrics ]
    ELSE
    LET current_values ==
            [ ch \in IioChannels |->
                [ i \in 0 .. (2 * IIO_PCIE_PORT_COUNT - 1) |->
                    IF i < IIO_PCIE_PORT_COUNT
                    THEN PcieRead(ch, i, 0, t)
                    ELSE PcieRead(ch, i - IIO_PCIE_PORT_COUNT, 1, t) ] ]
        hasLast == mon.pcie_last_values # << >> /\ mon.pcie_last_time # << >>
        last_values == mon.pcie_last_values[1]
        elapsed == t - mon.pcie_last_time[1]
        bw == [ m \in PcieMetrics |->
                  LET idx == IF m[1] = "PCIeInBandwidth"
                             THEN m[3] ELSE m[3] + IIO_PCIE_PORT_COUNT
                  IN Ratio(IioPcieDelta(current_values[m[2]][idx],
                                        last_values[m[2]][idx], WidthBits)
                             * CACHELINE_SIZE,
                           elapsed) ]
    IN [ ok |-> TRUE,
         mon |-> [mon EXCEPT !.pcie_last_values = <<current_values>>,
                             !.pcie_last_time = <<t>>],
         metrics |-> IF hasLast THEN MapInsert(metrics, bw) ELSE metrics ]

\* IioMonitor::collect_metrics, called at time t, given the result p of
\* try_collect_programmable_metrics: the warning, then the PCIe bandwidth.
CollectMetricsFrom(p, t, fault) ==
    LET warn == ~p.supported /\ ~p.mon.programmable_warned
        mon1 == IF warn THEN [p.mon EXCEPT !.programmable_warned = TRUE] ELSE p.mon
        b == collect_pcie_bandwidth(mon1, p.metrics, t + p.sleeps, fault)
    IN [ ok |-> b.ok, mon |-> b.mon, metrics |-> b.metrics, units |-> p.units,
         supported |-> p.supported, warned |-> warn, sleeps |-> p.sleeps ]

collect_metrics(mon, units, samples, t, fault) ==
    CollectMetricsFrom(
        try_collect_programmable_metrics(mon, << >>, units, samples, fault), t, fault)

\* -------------------------------------------------- IIO exporter

\* The socket the exporter was configured with.
IioSocket == 0

\* Gauge::new: the value 0, never set.
NewGauge == [ value |-> F64(0), tick |-> 0 ]

NoIioCall ==
    [ ok |-> TRUE, supported |-> TRUE, kind |-> "none", pcie |-> FALSE,
      warned |-> FALSE, metrics |-> {} ]

\* IioMetricExporter::new: one monitor for the socket and a gauge per metric.
IioNew ==
    /\ iioMonitors = IioMonitor_new(IioSocket)
    /\ iioGauges = [ m \in IioMetric_all |-> NewGauge ]
    /\ iioUnits = [ u \in IioChannels |-> IioUnitReset ]
    /\ iioClock = 0
    /\ iioCall = NoIioCall
    /\ iioHist = [ ticks |-> 0, warnings |-> 0, successes |-> 0, sleeps |-> 0 ]

\* One tick of the loop: IioMetricExporter::collect.  It builds a monitor for
\* the socket with IioMonitor::new, calls collect_metrics on it, sets the gauge
\* of every metric returned, and drops the monitor; self.monitors is only read
\* for the socket ids.  The tick comes one second after the last one, or at
\* once when the last collect slept for a second or more.
IioCollect ==
    /\ iioHist.ticks < MaxIioTicks
    /\ LET t == IF iioHist.ticks = 0 \/ iioHist.sleeps > 0
                THEN iioClock ELSE iioClock + 1
           tick == iioHist.ticks + 1
       IN \E samples \in IioSamples :
          \E fault \in IioFaults :
          \E r \in { collect_metrics(IioMonitor_new(iioMonitors.socket), iioUnits,
                                     samples, t, fault) } :
             /\ iioGauges' =
                  IF r.ok
                  THEN [ m \in IioMetric_all |->
                           IF m \in DOMAIN r.metrics
                           THEN [ value |-> r.metrics[m], tick |-> tick ]
                           ELSE iioGauges[m] ]
                  ELSE iioGauges
             /\ iioUnits' = r.units
             /\ iioClock' = t + r.sleeps
             /\ iioCall' = [ ok |-> r.ok, supported |-> r.supported,
                             kind |-> fault.kind, pcie |-> fault.pcie,
                             warned |-> r.warned,
                             metrics |-> IF r.ok THEN DOMAIN r.metrics ELSE {} ]
             /\ iioHist' = [ ticks |-> tick,
                             warnings |-> iioHist.warnings + (IF r.warned THEN 1 ELSE 0),
                             successes |-> iioHist.successes + (IF r.ok THEN 1 ELSE 0),
                             sleeps |-> r.sleeps ]
    /\ UNCHANGED <<iioMonitors, notIio>>

NextIio == IioCollect

\* ------------------------------------------------------ RDT monitor

\* monitor.rs: RMID_MAX and the event ids written to IA32_QM_EVTSEL
RMID_MAX == 256
LLC_OCCUPANCY_EVENT == 1
LOCAL_MEM_BW_EVENT == 2
REMOTE_MEM_BW_EVENT == 3
\* prom/rdt.rs: the RMID associations are refreshed every 30 collections
RMID_REFRESH_PERIOD == 30

\* Sockets of the machine, monitored cores per socket, exporter ticks of a run.
RdtSocketCount == 1
CoresPerSocket == 2
MaxRdtTicks == 3

\* config.sockets and config.cores; core c is on socket c \div CoresPerSocket
\* (read_socket_id).
RdtSockets == 0 .. (RdtSocketCount - 1)
RdtCores == 0 .. (RdtSocketCount * CoresPerSocket - 1)
read_socket_id(core) == core \div CoresPerSocket

\* config.cores of the exporter's monitor: the cores of RdtCores, ascending.
RdtConfigCores == [ k \in 1 .. (RdtSocketCount * CoresPerSocket) |-> k - 1 ]

SeqSet(s) == { s[i] : i \in DOMAIN s }
SetMax(S) == CHOOSE m \in S : \A x \in S : x <= m
SetMin(S) == CHOOSE m \in S : \A x \in S : m <= x

\* cpuid::get_mbm_scaling_factor
mbm_scaling_factor == 2

\* initialize_socket_info: the configured cores grouped by read_socket_id, each
\* group in the order of config.cores.  self.sockets holds the groups in the
\* iteration order of a HashMap; they are kept by ascending socket id here.
initialize_socket_info(cores) ==
    LET ids == { read_socket_id(c) : c \in SeqSet(cores) }
    IN [ i \in 1 .. Cardinality(ids) |->
           LET s == CHOOSE s \in ids : Cardinality({ t \in ids : t < s }) = i - 1
           IN [ socket_id |-> s,
                cores |-> SelectSeq(cores, LAMBDA c : read_socket_id(c) = s),
                last_local_bw |-> 0,
                last_remote_bw |-> 0 ] ]

\* RdtMonitor::new for config.cores = cores: the vectors have max_core + 1
\* entries, no RMID is in use.
RdtMonitor_build(cores) ==
    LET max_core == IF cores = << >> THEN 0 ELSE SetMax(SeqSet(cores))
        zeros == [ c \in 0 .. max_core |-> 0 ]
    IN [ config |-> [ cores |-> cores ],
         mbm_scaling_factor |-> mbm_scaling_factor,
         local_memory_bandwidth |-> zeros,
         remote_memory_bandwidth |-> zeros,
         llc_occupancy |-> zeros,
         prev_local_counters |-> zeros,
         prev_remote_counters |-> zeros,
         core_to_rmid |-> zeros,
         rmid_used |-> {},
         sockets |-> initialize_socket_info(cores) ]

\* RdtMonitor::new for the exporter's configuration
RdtMonitor_new == RdtMonitor_build(RdtConfigCores)

\* The registers.  IA32_PQR_ASSOC of every CPU is kept as the pair <<hi, lo>>
\* of its two 32-bit halves (the COS field is hi, the RMID the low 10 bits of
\* lo), IA32_QM_EVTSEL as the pair <<rmid, event>> of the word
\* (rmid << 32) | event.  issued is the trace of the MSR operations of the
\* call that is running: the CPU, the register, and the core the operation is for.
RdtMsrWith(pqr) ==
    [ pqr_assoc |-> pqr,
      qm_evtsel |-> [ c \in DOMAIN pqr |-> <<0, 0>> ],
      issued |-> {} ]

RdtMsrReset == RdtMsrWith([ c \in RdtCores |-> <<0, 0>> ])

\* ok: whether the operation succeeded
MsrOp(cpu, reg, core, ok) == [ cpu |-> cpu, reg |-> reg, core |-> core, ok |-> ok ]

\* allocate_rmid: the lowest id of 1 .. RMID_MAX - 1 that is not in use
allocate_rmid_no_mark(mon) ==
    LET free == { i \in 1 .. (RMID_MAX - 1) : i \notin mon.rmid_used }
    IN IF free = {}
       THEN [ ok |-> FALSE, rmid |-> 0, mon |-> mon ]
       ELSE [ ok |-> TRUE, rmid |-> SetMin(free), mon |-> mon ]

allocate_rmid_from_zero(mon) ==
    LET free == { i \in 0 .. (RMID_MAX - 1) : i \notin mon.rmid_used }
    IN IF free = {}
       THEN [ ok |-> FALSE, rmid |-> 0, mon |-> mon ]
       ELSE LET i == SetMin(free)
            IN [ ok |-> TRUE, rmid |-> i,
                 mon |-> [mon EXCEPT !.rmid_used = @ \cup {i}] ]

allocate_rmid(mon) ==
    LET free == { i \in 1 .. (RMID_MAX - 1) : i \notin mon.rmid_used }
    IN IF free = {}
       THEN [ ok |-> FALSE, rmid |-> 0, mon |-> mon ]
       ELSE LET i == SetMin(free)
            IN [ ok |-> TRUE, rmid |-> i,
                 mon |-> [mon EXCEPT !.rmid_used = @ \cup {i}] ]

\* free_rmid
free_rmid(mon, rmid) ==
    IF rmid > 0 /\ rmid < RMID_MAX
    THEN [mon EXCEPT !.rmid_used = @ \ {rmid}]
    ELSE mon

\* a | b on naturals
RECURSIVE BitOr(_, _)
BitOr(a, b) ==
    IF a = 0 THEN b
    ELSE IF b = 0 THEN a
    ELSE (IF a % 2 = 1 \/ b % 2 = 1 THEN 1 ELSE 0) + 2 * BitOr(a \div 2, b \div 2)

\* current_assoc & !0x3FF  and  ... | (rmid as u64)  on the <<hi, lo>> halves
ClearRmidField(assoc) == << assoc[1], (assoc[2] \div 1024) * 1024 >>
OrLow(assoc, rmid) == << assoc[1], BitOr(assoc[2], rmid) >>

\* assign_rmid_to_core without the mask: new_assoc = current_assoc | rmid
assign_rmid_to_core_no_mask(mon, msr, core_id, rmid, failStep) ==
    IF failStep # 0
    THEN [ ok |-> FALSE, mon |-> mon, msr |-> msr ]
    ELSE [ ok |-> TRUE,
           mon |-> [mon EXCEPT !.core_to_rmid[core_id] = rmid],
           msr |-> [msr EXCEPT
                      !.pqr_assoc[core_id] = OrLow(@, rmid),
                      !.issued = @ \cup { MsrOp(core_id, "PQR_ASSOC_read", core_id, TRUE),
                                          MsrOp(core_id, "PQR_ASSOC_write", core_id, TRUE) }] ]

\* assign_rmid_to_core.  failStep: 0 when both MSR operations succeed, 1 when
\* the read of IA32_PQR_ASSOC returns an error, 2 when the write does.
assign_rmid_to_core(mon, msr, core_id, rmid, failStep) ==
    LET current_assoc == msr.pqr_assoc[core_id]
        new_assoc == OrLow(ClearRmidField(current_assoc), rmid)
        rd == MsrOp(core_id, "PQR_ASSOC_read", core_id, failStep # 1)
        wr == MsrOp(core_id, "PQR_ASSOC_write", core_id, failStep # 2)
    IN IF failStep = 1
       THEN [ ok |-> FALSE, mon |-> mon,
              msr |-> [msr EXCEPT !.issued = @ \cup {rd}] ]
       ELSE IF failStep = 2
       THEN [ ok |-> FALSE, mon |-> mon,
              msr |-> [msr EXCEPT !.issued = @ \cup {rd, wr}] ]
       ELSE [ ok |-> TRUE,
              mon |-> [mon EXCEPT !.core_to_rmid[core_id] = rmid],
              msr |-> [msr EXCEPT !.pqr_assoc[core_id] = new_assoc,
                                  !.issued = @ \cup {rd, wr}] ]

\* Faults of initialize and of refresh_rmids: the first MSR operation that
\* returns an error, the step-th of the two of the pos-th configured core.
AssignNoFault == [ pos |-> 0, step |-> 0 ]
AssignFaults(cores) ==
    {AssignNoFault} \cup { [ pos |-> p, step |-> k ] : p \in DOMAIN cores, k \in 1 .. 2 }

\* The body of the loop of initialize for the pos-th configured core
InitializeAssign(a, msr, pos, fault) ==
    IF ~a.ok
    THEN [ ok |-> FALSE, mon |-> a.mon, msr |-> msr ]
    ELSE assign_rmid_to_core(a.mon, msr, a.mon.config.cores[pos], a.rmid,
                             IF fault.pos = pos THEN fault.step ELSE 0)

InitializeCore(mon, msr, pos, fault) ==
    InitializeAssign(allocate_rmid(mon), msr, pos, fault)

\* The loop of initialize over the configured cores lo .. hi, in order; the
\* first error ends it.
RECURSIVE InitializeRange(_, _, _, _, _)
InitializeRest(r, lo, hi, fault) ==
    IF ~r.ok THEN r ELSE InitializeRange(r.mon, r.msr, lo, hi, fault)

InitializeRange(mon, msr, lo, hi, fault) ==
    IF lo > hi THEN [ ok |-> TRUE, mon |-> mon, msr |-> msr ]
    ELSE IF lo = hi THEN InitializeCore(mon, msr, lo, fault)
    ELSE InitializeRest(InitializeRange(mon, msr, lo, (lo + hi) \div 2, fault),
                        (lo + hi) \div 2 + 1, hi, fault)

\* RdtMonitor::initialize
initialize(mon, msr, fault) ==
    InitializeRange(mon, msr, 1, Len(mon.config.cores), fault)

\* The body of the loop of refresh_rmids for the pos-th configured core
RefreshCore(mon, msr, pos, fault) ==
    IF mon.core_to_rmid[mon.config.cores[pos]] # 0
    THEN assign_rmid_to_core(mon, msr, mon.config.cores[pos],
                             mon.core_to_rmid[mon.config.cores[pos]],
                             IF fault.pos = pos THEN fault.step ELSE 0)
    ELSE [ ok |-> TRUE, mon |-> mon, msr |-> msr ]

RECURSIVE RefreshRange(_, _, _, _, _)
RefreshRest(r, lo, hi, fault) ==
    IF ~r.ok THEN r ELSE RefreshRange(r.mon, r.msr, lo, hi, fault)

RefreshRange(mon, msr, lo, hi, fault) ==
    IF lo > hi THEN [ ok |-> TRUE, mon |-> mon, msr |-> msr ]
    ELSE IF lo = hi THEN RefreshCore(mon, msr, lo, fault)
    ELSE RefreshRest(RefreshRange(mon, msr, lo, (lo + hi) \div 2, fault),
                     (lo + hi) \div 2 + 1, hi, fault)

\* refresh_rmids
refresh_rmids(mon, msr, fault) ==
    RefreshRange(mon, msr, 1, Len(mon.config.cores), fault)

\* The body of the loop of drop for the pos-th configured core
DropCore(mon, pos) ==
    IF mon.core_to_rmid[mon.config.cores[pos]] # 0
    THEN free_rmid(mon, mon.core_to_rmid[mon.config.cores[pos]])
    ELSE mon

RECURSIVE DropRange(_, _, _)
DropRange(mon, lo, hi) ==
    IF lo > hi THEN mon
    ELSE IF lo = hi THEN DropCore(mon, lo)
    ELSE DropRange(DropRange(mon, lo, (lo + hi) \div 2), (lo + hi) \div 2 + 1, hi)

\* Drop for RdtMonitor
drop(mon) == DropRange(mon, 1, Len(mon.config.cores))

\* What IA32_QM_CTR can return for the three events of one RMID.
RdtSamples == { <<1, 2, 3>>, <<2, 1, 1>> }

\* Faults of update_socket_metrics: the first MSR operation that returns an
\* error, the step-th of the six (write, read of each event) of the pos-th core.
RdtNoFault == [ pos |-> 0, step |-> 0 ]
RdtFaults ==
    {RdtNoFault} \cup { [ pos |-> p, step |-> k ] : p \in 1 .. CoresPerSocket, k \in 1 .. 6 }

\* The body of the loop of update_socket_metrics for one core; failStep = 0
\* when every operation succeeds.  sums holds socket_local_bw, socket_remote_bw.
UpdateCore(mon, msr, monitoring_core, core, sums, sample, failStep) ==
    LET rmid == mon.core_to_rmid[core]
        done == IF failStep = 0 THEN 6 ELSE failStep - 1
        lastEvent == (done + 1) \div 2
        attempted == IF failStep = 0 THEN 6 ELSE failStep
        ops == { MsrOp(monitoring_core,
                       IF k % 2 = 1 THEN "QM_EVTSEL_write" ELSE "QM_CTR_read", core,
                       k # failStep) :
                 k \in 1 .. attempted }
        msr1 == [msr EXCEPT !.issued = @ \cup ops]
        msr2 == IF lastEvent = 0 THEN msr1
                ELSE [msr1 EXCEPT !.qm_evtsel[monitoring_core] = <<rmid, lastEvent>>]
        llc_counter == sample[LLC_OCCUPANCY_EVENT]
        local_counter == sample[LOCAL_MEM_BW_EVENT]
        remote_counter == sample[REMOTE_MEM_BW_EVENT]
        mon2 == IF done >= 2
                THEN [mon EXCEPT !.llc_occupancy[core] = llc_counter * mon.mbm_scaling_factor]
                ELSE mon
        local_bw == RdtDelta(local_counter, mon.prev_local_counters[core])
                      * mon.mbm_scaling_factor
        remote_bw == RdtDelta(remote_counter, mon.prev_remote_counters[core])
                       * mon.mbm_scaling_factor
    IN IF failStep # 0
       THEN [ ok |-> FALSE, mon |-> mon2, msr |-> msr2, sums |-> sums ]
       ELSE [ ok |-> TRUE,
              mon |-> [mon2 EXCEPT !.local_memory_bandwidth[core] = local_bw,
                                   !.remote_memory_bandwidth[core] = remote_bw,
                                   !.prev_local_counters[core] = local_counter,
                                   !.prev_remote_counters[core] = remote_counter],
              msr |-> msr2,
              sums |-> <<sums[1] + local_bw, sums[2] + remote_bw>> ]

\* let monitoring_core = socket.cores[0]
monitoring_core_first(mon, socket_idx) == mon.config.cores[1]

monitoring_core(mon, socket_idx) == mon.sockets[socket_idx].cores[1]

\* update_socket_metrics from the pos-th core of the socket on
RECURSIVE UpdateCoresFrom(_, _, _, _, _, _, _)
UpdateCoresAfter(c, socket_idx, pos, sample, fault) ==
    IF ~c.ok
    THEN [ ok |-> FALSE, mon |-> c.mon, msr |-> c.msr ]
    ELSE UpdateCoresFrom(c.mon, c.msr, socket_idx, pos + 1, c.sums, sample, fault)

UpdateCoresFrom(mon, msr, socket_idx, pos, sums, sample, fault) ==
    IF pos > Len(mon.sockets[socket_idx].cores)
    THEN [ ok |-> TRUE,
           mon |-> [mon EXCEPT !.sockets[socket_idx].last_local_bw = sums[1],
                               !.sockets[socket_idx].last_remote_bw = sums[2]],
           msr |-> msr ]
    ELSE UpdateCoresAfter(
            UpdateCore(mon, msr, monitoring_core(mon, socket_idx),
                       mon.sockets[socket_idx].cores[pos], sums, sample,
                       IF fault.pos = pos THEN fault.step ELSE 0),
            socket_idx, pos, sample, fault)

\* socket_idx is a position in self.sockets, counted from 1 here
update_socket_metrics(mon, msr, socket_idx, sample, fault) ==
    UpdateCoresFrom(mon, msr, socket_idx, 1, <<0, 0>>, sample, fault)

\* RdtMonitor::update from socket i on: an error of update_socket_metrics is
\* logged and the loop goes on; the result is Ok(()) in every case.
RECURSIVE UpdateFrom(_, _, _, _, _, _)
UpdateAfter(u, i, failed, sample, faults) ==
    UpdateFrom(u.mon, u.msr, i + 1,
               IF u.ok THEN failed ELSE failed \cup {i}, sample, faults)

UpdateFrom(mon, msr, i, failed, sample, faults) ==
    IF i > Len(mon.sockets)
    THEN [ ok |-> TRUE, mon |-> mon, msr |-> msr, failed |-> failed ]
    ELSE UpdateAfter(update_socket_metrics(mon, msr, i, sample, faults[i]),
                     i, failed, sample, faults)

update(mon, msr, sample, faults) == UpdateFrom(mon, msr, 1, {}, sample, faults)

\* get_metrics(core_id)
get_metrics(mon, core_id) ==
    IF core_id \in SeqSet(mon.config.cores)
    THEN [ LocalMemoryBandwidth |-> F64(mon.local_memory_bandwidth[core_id]),
           RemoteMemoryBandwidth |-> F64(mon.remote_memory_bandwidth[core_id]),
           TotalMemoryBandwidth |-> F64(mon.local_memory_bandwidth[core_id]
                                          + mon.remote_memory_bandwidth[core_id]),
           CMTLLCOccupancy |-> F64(mon.llc_occupancy[core_id]) ]
    ELSE << >>

\* get_socket_metrics(socket_id)
get_socket_metrics(mon, socket_id) ==
    LET found == { i \in 1 .. Len(mon.sockets) : mon.sockets[i].socket_id = socket_id }
    IN IF found = {} THEN << >>
       ELSE LET info == mon.sockets[CHOOSE i \in found : \A j \in found : i <= j]
            IN [ LocalMemoryBandwidth |-> F64(info.last_local_bw),
                 RemoteMemoryBandwidth |-> F64(info.last_remote_bw),
                 TotalMemoryBandwidth |-> F64(info.last_local_bw + info.last_remote_bw),
                 CMTLLCOccupancy |->
                    F64(SeqSum([ k \in 1 .. Len(info.cores) |->
                                   mon.llc_occupancy[info.cores[k]] ])) ]

\* ------------------------------------------------- RDT exporter

RdtMetricNames ==
    { "LocalMemoryBandwidth", "RemoteMemoryBandwidth", "TotalMemoryBandwidth",
      "CMTLLCOccupancy" }

\* socket_gauges and core_gauges
RdtGaugeKeys ==
    { <<"socket", s, m>> : s \in RdtSockets, m \in RdtMetricNames }
    \cup { <<"core", c, m>> : c \in RdtCores, m \in RdtMetricNames }

NoRdtCall == [ ok |-> TRUE, failed |-> {}, refreshed |-> FALSE ]

\* The calls of one process are traced one at a time.
NewCall(msr) == [msr EXCEPT !.issued = {}]

\* RdtMetricExporter::new: the monitor built and initialized (new returns the
\* error of initialize, so an exporter has an initialized monitor), every gauge
\* registered, the refresh counter at 0.
RdtNew ==
    /\ rdtMonitor = initialize(RdtMonitor_new, RdtMsrReset, AssignNoFault).mon
    /\ rdtMsr = NewCall(initialize(RdtMonitor_new, RdtMsrReset, AssignNoFault).msr)
    /\ rdtGauges = [ k \in RdtGaugeKeys |-> NewGauge ]
    /\ rmid_refresh_counter = 0
    /\ rdtCall = NoRdtCall
    /\ rdtHist = [ ticks |-> 0 ]

\* The gauges after the two publishing loops of collect, in tick `tick`.
RdtPublish(mon, gauges, tick) ==
    [ k \in RdtGaugeKeys |->
        LET metrics == IF k[1] = "socket" THEN get_socket_metrics(mon, k[2])
                       ELSE get_metrics(mon, k[2])
        IN IF k[3] \in DOMAIN metrics
           THEN [ value |-> metrics[k[3]], tick |-> tick ]
           ELSE gauges[k] ]

\* One tick of the loop: RdtMetricExporter::collect.  update(), a return if it
\* is an error, the socket gauges, the core gauges, and the RMID refresh on
\* every RMID_REFRESH_PERIOD-th collection; an error of refresh_rmids is logged.
RdtCollectWith(limit, sampleSet, faultSet) ==
    /\ rdtHist.ticks < limit
    /\ \E sample \in sampleSet :
       \E faults \in [ 1 .. Len(rdtMonitor.sockets) -> faultSet ] :
       \E u \in { update(rdtMonitor, NewCall(rdtMsr), sample, faults) } :
       \E rf \in IF rmid_refresh_counter + 1 >= RMID_REFRESH_PERIOD
                 THEN AssignFaults(rdtMonitor.config.cores) ELSE {AssignNoFault} :
          LET tick == rdtHist.ticks + 1
              refresh == rmid_refresh_counter + 1 >= RMID_REFRESH_PERIOD
              r == IF refresh THEN refresh_rmids(u.mon, u.msr, rf)
                   ELSE [ ok |-> TRUE, mon |-> u.mon, msr |-> u.msr ]
          IN IF ~u.ok
             THEN /\ rdtMonitor' = u.mon
                  /\ rdtMsr' = u.msr
                  /\ rdtCall' = [ ok |-> FALSE, failed |-> u.failed, refreshed |-> FALSE ]
                  /\ rdtHist' = [ ticks |-> tick ]
                  /\ UNCHANGED <<rdtGauges, rmid_refresh_counter>>
             ELSE /\ rdtGauges' = RdtPublish(u.mon, rdtGauges, tick)
                  /\ rmid_refresh_counter' =
                       IF refresh THEN 0 ELSE rmid_refresh_counter + 1
                  /\ rdtMonitor' = r.mon
                  /\ rdtMsr' = r.msr
                  /\ rdtCall' = [ ok |-> TRUE, failed |-> u.failed, refreshed |-> refresh ]
                  /\ rdtHist' = [ ticks |-> tick ]
    /\ UNCHANGED notRdt

RdtCollect == RdtCollectWith(MaxRdtTicks, RdtSamples, RdtFaults)

NextRdt == RdtCollect

\* A run long enough for two refreshes of the RMID associations.
RdtRunTicks == 2 * RMID_REFRESH_PERIOD + 1

\* The MSR errors of the run are those of refresh_rmids.
RdtRunCollect == RdtCollectWith(RdtRunTicks, RdtSamples, {RdtNoFault})

NextRdtRun == RdtRunCollect

\* ------------------------------------------------ the RMID pool

\* Calls made on a pool, after the allocations that filled it.
MaxPoolOps == 2

\* The ids free_rmid is called with: 0 and RMID_MAX are outside the pool.
PoolFreeIds == { 0, 1, 2, RMID_MAX - 1, RMID_MAX }

\* Monitored cores of the large configurations initialize is called on.
ManyCores == { RMID_MAX - 1, RMID_MAX }

NoRmCall == [ op |-> "none", ok |-> TRUE, rmid |-> 0 ]

\* A pool after k allocate_rmid calls and no free_rmid, for every k; and a
\* monitor built by RdtMonitor::new on a configuration of n cores 0 .. n - 1,
\* for the n of ManyCores.
PoolNew ==
    /\ \/ /\ rmPhase = "pool"
          /\ \E k \in 0 .. (RMID_MAX - 1) :
                /\ rmMon = [RdtMonitor_build(<< >>) EXCEPT !.rmid_used = 1 .. k]
                /\ rmHist = [ ops |-> 0, live |-> 1 .. k, freed |-> {} ]
          /\ rmMsr = RdtMsrWith(<< >>)
       \/ /\ rmPhase = "new"
          /\ \E n \in ManyCores :
                /\ rmMon = RdtMonitor_build([ i \in 1 .. n |-> i - 1 ])
                /\ rmMsr = RdtMsrWith([ c \in 0 .. (n - 1) |-> <<0, 0>> ])
          /\ rmHist = [ ops |-> 0, live |-> {}, freed |-> {} ]
    /\ rmCall = NoRmCall

\* allocate_rmid
PoolAllocate ==
    /\ rmPhase = "pool"
    /\ rmHist.ops < MaxPoolOps
    /\ \E a \in { allocate_rmid(rmMon) } :
          /\ rmMon' = a.mon
          /\ rmCall' = [ op |-> "allocate", ok |-> a.ok, rmid |-> a.rmid ]
          /\ rmHist' = [rmHist EXCEPT !.ops = @ + 1,
                                      !.live = IF a.ok THEN @ \cup {a.rmid} ELSE @]
    /\ UNCHANGED <<rmMsr, rmPhase, notRm>>

\* free_rmid(id)
PoolFree ==
    /\ rmPhase = "pool"
    /\ rmHist.ops < MaxPoolOps
    /\ \E id \in PoolFreeIds :
          /\ rmMon' = free_rmid(rmMon, id)
          /\ rmCall' = [ op |-> "free", ok |-> TRUE, rmid |-> id ]
          /\ rmHist' = [rmHist EXCEPT !.ops = @ + 1,
                                      !.live = @ \ {id},
                                      !.freed = @ \cup {id}]
    /\ UNCHANGED <<rmMsr, rmPhase, notRm>>

\* RdtMonitor::initialize on a newly built monitor
PoolInitialize ==
    /\ rmPhase = "new"
    /\ \E fault \in AssignFaults(rmMon.config.cores) :
       \E r \in { initialize(rmMon, NewCall(rmMsr), fault) } :
          /\ rmMon' = r.mon
          /\ rmMsr' = r.msr
          /\ rmPhase' = IF r.ok THEN "ready" ELSE "failed"
          /\ rmCall' = [ op |-> "initialize", ok |-> r.ok, rmid |-> 0 ]
          /\ rmHist' = [rmHist EXCEPT !.ops = @ + 1, !.live = r.mon.rmid_used]
    /\ UNCHANGED notRm

NextPool == PoolAllocate \/ PoolFree \/ PoolInitialize

\* ------------------------------------- a monitor from new to Drop

\* Sockets of the machine the monitor runs on, each of CoresPerSocket CPUs;
\* calls of update or refresh_rmids between initialize and Drop.
MachineSockets == 2
MaxLifeOps == 1

MachineCpuCount == MachineSockets * CoresPerSocket
MachineCpus == 0 .. (MachineCpuCount - 1)

\* Orders in which a configuration can list the CPUs: ascending, descending,
\* and taking the sockets in turn.
CpuOrders ==
    { [ k \in 1 .. MachineCpuCount |-> k - 1 ],
      [ k \in 1 .. MachineCpuCount |-> MachineCpuCount - k ],
      [ k \in 1 .. MachineCpuCount |->
          ((k - 1) % MachineSockets) * CoresPerSocket + (k - 1) \div MachineSockets ] }

\* config.cores: the first j CPUs of one of the orders.
LifeConfigs == { SubSeq(o, 1, j) : o \in CpuOrders, j \in 1 .. MachineCpuCount }

\* What IA32_PQR_ASSOC holds before the monitor starts: nothing, or a COS in
\* the high half with a stale RMID and a bit above the RMID field in the low half.
PqrValues == { <<0, 0>>, <<5, 2048 + 1023>> }

\* RdtMonitor::new on one of the configurations.
LifeNew ==
    /\ \E cores \in LifeConfigs : rmMon = RdtMonitor_build(cores)
    /\ \E v \in PqrValues : rmMsr = RdtMsrWith([ c \in MachineCpus |-> v ])
    /\ rmPhase = "new"
    /\ rmCall = NoRmCall
    /\ rmHist = [ ops |-> 0, live |-> {}, freed |-> {} ]

\* RdtMonitor::initialize
LifeInitialize ==
    /\ rmPhase = "new"
    /\ \E fault \in AssignFaults(rmMon.config.cores) :
       \E r \in { initialize(rmMon, NewCall(rmMsr), fault) } :
          /\ rmMon' = r.mon
          /\ rmMsr' = r.msr
          /\ rmPhase' = IF r.ok THEN "ready" ELSE "failed"
          /\ rmCall' = [ op |-> "initialize", ok |-> r.ok, rmid |-> 0 ]
          /\ rmHist' = [rmHist EXCEPT !.live = r.mon.rmid_used]
    /\ UNCHANGED notRm

\* Faults of one update call: no MSR error, or one in one socket.
UpdateFaults(mon) ==
    { [ i \in 1 .. Len(mon.sockets) |-> RdtNoFault ] }
    \cup { [ i \in 1 .. Len(mon.sockets) |->
               IF i = j THEN [ pos |-> p, step |-> k ] ELSE RdtNoFault ] :
           j \in 1 .. Len(mon.sockets), p \in 1 .. CoresPerSocket, k \in 1 .. 6 }

\* RdtMonitor::update
LifeUpdate ==
    /\ rmPhase = "ready"
    /\ rmHist.ops < MaxLifeOps
    /\ \E sample \in RdtSamples :
       \E faults \in UpdateFaults(rmMon) :
       \E u \in { update(rmMon, NewCall(rmMsr), sample, faults) } :
          /\ rmMon' = u.mon
          /\ rmMsr' = u.msr
          /\ rmCall' = [ op |-> "update", ok |-> u.ok, rmid |-> 0 ]
    /\ rmHist' = [rmHist EXCEPT !.ops = @ + 1]
    /\ UNCHANGED <<rmPhase, notRm>>

\* RdtMonitor::refresh_rmids
LifeRefresh ==
    /\ rmPhase = "ready"
    /\ rmHist.ops < MaxLifeOps
    /\ \E fault \in AssignFaults(rmMon.config.cores) :
       \E r \in { refresh_rmids(rmMon, NewCall(rmMsr), fault) } :
          /\ rmMon' = r.mon
          /\ rmMsr' = r.msr
          /\ rmCall' = [ op |-> "refresh_rmids", ok |-> r.ok, rmid |-> 0 ]
    /\ rmHist' = [rmHist EXCEPT !.ops = @ + 1]
    /\ UNCHANGED <<rmPhase, notRm>>

\* Drop for RdtMonitor: of the exporter's monitor, or of the monitor whose
\* initialize returned an error to RdtMetricExporter::new.
LifeDrop ==
    /\ rmPhase \in { "ready", "failed" }
    /\ rmMon' = drop(rmMon)
    /\ rmMsr' = NewCall(rmMsr)
    /\ rmPhase' = "dropped"
    /\ rmCall' = [ op |-> "drop", ok |-> TRUE, rmid |-> 0 ]
    /\ rmHist' = [rmHist EXCEPT !.freed = rmMon.rmid_used \ drop(rmMon).rmid_used]
    /\ UNCHANGED notRm

NextLife == LifeInitialize \/ LifeUpdate \/ LifeRefresh \/ LifeDrop

\* ------------------------------------------- MSR access: common/msr.rs

\* Threads that call Msr::read and Msr::write, and the calls they make in all.
HwThreadCount == 2
MaxHwCalls == 2

\* The CPUs of the machine.
HwThreadIds == 1 .. HwThreadCount
HwCpus == { 0, 1 }

\* The registers asked for: IA32_QM_EVTSEL and IA32_PQR_ASSOC.
MsrAddrs == { 3213, 3215 }

\* A thread outside a call.  In a call: key is the CPU (or the PCI address)
\* asked for, addr the register, handle the handle get_handle returned, missed
\* whether the lookup under the read lock found no entry, before the affinity
\* mask at the start of MsrHandle::read or ::write, old the mask the
\* AffinityGuard saved, result the result the call is about to return.
HwIdle ==
    [ pc |-> "idle", key |-> 0, addr |-> 0, handle |-> 0, missed |-> FALSE,
      before |-> {}, old |-> {}, result |-> "none" ]

\* The thread after its call returned
HwReturn(th, result) == HwIdle

\* RwLock::read / RwLock::write can be taken
can_read(lock) == lock.writer = 0
can_write(lock) == lock.writer = 0 /\ lock.readers = {}

\* sched_setaffinity(0, mask) where the process may run on the CPUs of
\* allowed: the thread's mask becomes mask & allowed; EINVAL when that is empty.
sched_setaffinity(mask, allowed) ==
    [ ok |-> mask \cap allowed # {}, mask |-> mask \cap allowed ]

\* The cpusets of the runs: every CPU, or every CPU but CPU 0; and the masks
\* the threads start with: the whole cpuset, or its highest CPU only.
HwCpusets == { HwCpus, HwCpus \ {0} }
HwStartMasks(allowed) == { allowed, { SetMax(allowed) } }

\* No handle, no lock held, no call made.
HwStart(keys, allowed, mask) ==
    /\ hwThreads = [ t \in HwThreadIds |-> HwIdle ]
    /\ hwHandles = [ c \in keys |-> 0 ]
    /\ hwLock = [ readers |-> {}, writer |-> 0 ]
    /\ hwFiles = [ c \in keys |-> << >> ]
    /\ hwAllowed = allowed
    /\ hwMask = [ t \in HwThreadIds |-> mask ]
    /\ hwMcfg = {}
    /\ hwCalls = 0

HwNew == \E allowed \in HwCpusets : \E m \in HwStartMasks(allowed) : HwStart(HwCpus, allowed, m)

\* Msr::read(cpu, addr) or Msr::write(cpu, addr, value) is called
MsrCall(t) ==
    /\ hwThreads[t].pc = "idle"
    /\ hwCalls < MaxHwCalls
    /\ hwCalls' = hwCalls + 1
    /\ \E cpu \in HwCpus, addr \in MsrAddrs :
          hwThreads' = [hwThreads EXCEPT ![t] =
                          [HwIdle EXCEPT !.pc = "g_read", !.key = cpu, !.addr = addr]]
    /\ UNCHANGED <<hwHandles, hwLock, hwFiles, hwMask, hwMcfg, hwAllowed, notHw>>

\* get_handle: let handles = self.handles.read()
GetHandleReadLock(t) ==
    /\ hwThreads[t].pc = "g_read"
    /\ can_read(hwLock)
    /\ hwLock' = [hwLock EXCEPT !.readers = @ \cup {t}]
    /\ hwThreads' = [hwThreads EXCEPT ![t].pc = "g_lookup"]
    /\ UNCHANGED <<hwHandles, hwFiles, hwMask, hwMcfg, hwCalls, hwAllowed, notHw>>

\* get_handle: handles.get(&cpu) under the read lock, which the end of the
\* block releases; a hit returns the handle to Msr::read / ::write
GetHandleLookup(t) ==
    /\ hwThreads[t].pc = "g_lookup"
    /\ hwLock' = [hwLock EXCEPT !.readers = @ \ {t}]
    /\ hwThreads' = [hwThreads EXCEPT ![t] =
          IF hwHandles[hwThreads[t].key] # 0
          THEN [hwThreads[t] EXCEPT !.pc = "h_guard",
                                    !.handle = hwHandles[hwThreads[t].key]]
          ELSE [hwThreads[t] EXCEPT !.pc = "g_write", !.missed = TRUE]]
    /\ UNCHANGED <<hwHandles, hwFiles, hwMask, hwMcfg, hwCalls, hwAllowed, notHw>>

\* get_handle: let mut handles = self.handles.write()
GetHandleWriteLock(t) ==
    /\ hwThreads[t].pc = "g_write"
    /\ can_write(hwLock)
    /\ hwLock' = [hwLock EXCEPT !.writer = t]
    /\ hwThreads' = [hwThreads EXCEPT ![t].pc = "g_insert"]
    /\ UNCHANGED <<hwHandles, hwFiles, hwMask, hwMcfg, hwCalls, hwAllowed, notHw>>

\* The second handles.get(&cpu), under the write lock
recheck_none(handles, key) == 0

recheck(handles, key) == handles[key]

\* A handle as it is created: its key, the holder of its file mutex (0: none),
\* the offset of its file.  hwFiles[key] holds the handles created for key, and
\* a handle is named by its position there.
NewHandle(key) == [ key |-> key, holder |-> 0, offset |-> 0 ]

\* The handle a thread holds
HandleOf(files, th) == files[th.key][th.handle]

\* get_handle under the write lock: the second lookup, MsrHandle::new (the
\* open of /dev/cpu/N/msr can fail), the insert; the lock is released on return
GetHandleInsert(t) ==
    /\ hwThreads[t].pc = "g_insert"
    /\ hwLock' = [hwLock EXCEPT !.writer = 0]
    /\ IF recheck(hwHandles, hwThreads[t].key) # 0
       THEN /\ hwThreads' = [hwThreads EXCEPT ![t].pc = "h_guard",
                                              ![t].handle = recheck(hwHandles, hwThreads[t].key)]
            /\ UNCHANGED <<hwHandles, hwFiles>>
       ELSE \/ /\ hwThreads' = [hwThreads EXCEPT ![t] = HwReturn(hwThreads[t], "err")]
               /\ UNCHANGED <<hwHandles, hwFiles>>
            \/ /\ hwFiles' = [hwFiles EXCEPT ![hwThreads[t].key] =
                                Append(@, NewHandle(hwThreads[t].key))]
               /\ hwHandles' = [hwHandles EXCEPT ![hwThreads[t].key] =
                                  Len(hwFiles[hwThreads[t].key]) + 1]
               /\ hwThreads' = [hwThreads EXCEPT ![t].pc = "h_guard",
                                                 ![t].handle =
                                                    Len(hwFiles[hwThreads[t].key]) + 1]
    /\ UNCHANGED <<hwMask, hwMcfg, hwCalls, hwAllowed, notHw>>

\* AffinityGuard::new(cpu): old_affinity = sched_getaffinity(0), then
\* sched_setaffinity(0, {cpu}), whose error is returned
AffinityGuard_new(mask, cpu, allowed) ==
    [ ok |-> sched_setaffinity({cpu}, allowed).ok,
      old_affinity |-> mask,
      mask |-> IF sched_setaffinity({cpu}, allowed).ok
               THEN sched_setaffinity({cpu}, allowed).mask ELSE mask ]

\* Drop for AffinityGuard: let _ = sched_setaffinity(0, &self.old_affinity)
AffinityGuard_drop_none(mask, old_affinity, allowed) == mask

AffinityGuard_drop(mask, old_affinity, allowed) ==
    IF sched_setaffinity(old_affinity, allowed).ok
    THEN sched_setaffinity(old_affinity, allowed).mask
    ELSE mask

\* MsrHandle::read / ::write: let _affinity = AffinityGuard::new(self.cpu_id)?
AffinityGuardNew(t) ==
    /\ hwThreads[t].pc = "h_guard"
    /\ \E g \in { AffinityGuard_new(hwMask[t], HandleOf(hwFiles, hwThreads[t]).key,
                                     hwAllowed) } :
          /\ hwMask' = [hwMask EXCEPT ![t] = g.mask]
          /\ hwThreads' = [hwThreads EXCEPT ![t] =
                IF g.ok
                THEN [hwThreads[t] EXCEPT !.pc = "h_lock", !.before = hwMask[t],
                                          !.old = g.old_affinity]
                ELSE HwReturn(hwThreads[t], "err")]
    /\ UNCHANGED <<hwHandles, hwLock, hwFiles, hwMcfg, hwCalls, hwAllowed, notHw>>

\* self.file.lock(): whether the mutex can be taken
file_lock_unguarded(file) == TRUE

file_lock(file) == file.holder = 0

FileLock(t) ==
    /\ hwThreads[t].pc = "h_lock"
    /\ file_lock(HandleOf(hwFiles, hwThreads[t]))
    /\ hwFiles' = [hwFiles EXCEPT ![hwThreads[t].key][hwThreads[t].handle].holder = t]
    /\ hwThreads' = [hwThreads EXCEPT ![t].pc = "h_seek"]
    /\ UNCHANGED <<hwHandles, hwLock, hwMask, hwMcfg, hwCalls, hwAllowed, notHw>>

\* file.seek(SeekFrom::Start(addr)); an error ends the call
FileSeek(t) ==
    /\ hwThreads[t].pc = "h_seek"
    /\ \/ /\ hwFiles' = [hwFiles EXCEPT ![hwThreads[t].key][hwThreads[t].handle].offset =
                                hwThreads[t].addr]
          /\ hwThreads' = [hwThreads EXCEPT ![t].pc = "h_io"]
       \/ /\ hwThreads' = [hwThreads EXCEPT ![t].pc = "h_exit", ![t].result = "err"]
          /\ UNCHANGED hwFiles
    /\ UNCHANGED <<hwHandles, hwLock, hwMask, hwMcfg, hwCalls, hwAllowed, notHw>>

\* file.read_exact(&mut buffer) / file.write_all(..): the 8 bytes of the
\* register the file offset names (the MSR device leaves the offset where it
\* is); an error ends the call
FileTransfer(t) ==
    /\ hwThreads[t].pc = "h_io"
    /\ \/ hwThreads' = [hwThreads EXCEPT ![t].pc = "h_exit", ![t].result = "ok"]
       \/ hwThreads' = [hwThreads EXCEPT ![t].pc = "h_exit", ![t].result = "err"]
    /\ UNCHANGED <<hwHandles, hwLock, hwFiles, hwMask, hwMcfg, hwCalls, hwAllowed, notHw>>

\* The end of MsrHandle::read / ::write, on every path: the MutexGuard is
\* dropped, then the AffinityGuard
MsrHandleReturn(t) ==
    /\ hwThreads[t].pc = "h_exit"
    /\ hwFiles' = [hwFiles EXCEPT ![hwThreads[t].key][hwThreads[t].handle].holder =
                     IF @ = t THEN 0 ELSE @]
    /\ hwMask' = [hwMask EXCEPT ![t] =
                    AffinityGuard_drop(hwMask[t], hwThreads[t].old, hwAllowed)]
    /\ hwThreads' = [hwThreads EXCEPT ![t] = HwReturn(hwThreads[t], hwThreads[t].result)]
    /\ UNCHANGED <<hwHandles, hwLock, hwMcfg, hwCalls, hwAllowed, notHw>>

NextMsr ==
    \E t \in HwThreadIds :
       \/ MsrCall(t)
       \/ GetHandleReadLock(t)
       \/ GetHandleLookup(t)
       \/ GetHandleWriteLock(t)
       \/ GetHandleInsert(t)
       \/ AffinityGuardNew(t)
       \/ FileLock(t)
       \/ FileSeek(t)
       \/ FileTransfer(t)
       \/ MsrHandleReturn(t)

\* ------------------------------------------- PCI access: common/pci.rs

\* The logical addresses asked for: one device on socket 0, 1 and 2, of a
\* machine where the scan of the MCFG records finds the device on two buses.
PciConfigAddrs == { 0, 1, 2 }
PciCandidates == << 10, 20 >>

PciNew == HwStart(PciConfigAddrs, HwCpus, HwCpus)

\* Pci::read32 / write32 / read64 enter get_or_create_handle
PciCall(t) ==
    /\ hwThreads[t].pc = "idle"
    /\ hwCalls < MaxHwCalls
    /\ hwCalls' = hwCalls + 1
    /\ \E a \in PciConfigAddrs :
          hwThreads' = [hwThreads EXCEPT ![t] = [HwIdle EXCEPT !.pc = "p_read", !.key = a]]
    /\ UNCHANGED <<hwHandles, hwLock, hwFiles, hwMask, hwMcfg, hwAllowed, notHw>>

\* get_or_create_handle: let handles = self.handles.read()
PciReadLock(t) ==
    /\ hwThreads[t].pc = "p_read"
    /\ can_read(hwLock)
    /\ hwLock' = [hwLock EXCEPT !.readers = @ \cup {t}]
    /\ hwThreads' = [hwThreads EXCEPT ![t].pc = "p_lookup"]
    /\ UNCHANGED <<hwHandles, hwFiles, hwMask, hwMcfg, hwCalls, hwAllowed, notHw>>

\* get_or_create_handle: handles.get(config_addr) under the read lock, which
\* is released at the end of the block
PciLookup(t) ==
    /\ hwThreads[t].pc = "p_lookup"
    /\ hwLock' = [hwLock EXCEPT !.readers = @ \ {t}]
    /\ hwThreads' = [hwThreads EXCEPT ![t] =
          IF hwHandles[hwThreads[t].key] # 0
          THEN [hwThreads[t] EXCEPT !.pc = "p_have", !.handle = hwHandles[hwThreads[t].key]]
          ELSE [hwThreads[t] EXCEPT !.pc = "p_find", !.missed = TRUE]]
    /\ UNCHANGED <<hwHandles, hwFiles, hwMask, hwMcfg, hwCalls, hwAllowed, notHw>>

\* Mcfg::find_group_bus: the cached address, or candidates[socket] of the scan,
\* which is cached; an error when the socket has no candidate
find_group_bus(map, config_addr) ==
    IF \E e \in map : e[1] = config_addr
    THEN [ ok |-> TRUE, map |-> map,
           addr |-> (CHOOSE e \in map : e[1] = config_addr)[2] ]
    ELSE IF config_addr < Len(PciCandidates)
         THEN [ ok |-> TRUE, map |-> map \cup { <<config_addr, PciCandidates[config_addr + 1]>> },
                addr |-> PciCandidates[config_addr + 1] ]
         ELSE [ ok |-> FALSE, map |-> map, addr |-> 0 ]

\* get_or_create_handle: Mcfg::instance().find_group_bus(config_addr)?, with
\* no lock of the handle map held
PciFindGroupBus(t) ==
    /\ hwThreads[t].pc = "p_find"
    /\ \E r \in { find_group_bus(hwMcfg, hwThreads[t].key) } :
          /\ hwMcfg' = r.map
          /\ hwThreads' = [hwThreads EXCEPT ![t] =
                IF r.ok THEN [hwThreads[t] EXCEPT !.pc = "p_new", !.addr = r.addr]
                ELSE HwReturn(hwThreads[t], "err")]
    /\ UNCHANGED <<hwHandles, hwLock, hwFiles, hwMask, hwCalls, hwAllowed, notHw>>

\* get_or_create_handle: Arc::new(PciHandle::new(address)?), with no lock of
\* the handle map held; the open of the config file can fail
PciHandleNew(t) ==
    /\ hwThreads[t].pc = "p_new"
    /\ \/ /\ hwThreads' = [hwThreads EXCEPT ![t] = HwReturn(hwThreads[t], "err")]
          /\ UNCHANGED hwFiles
       \/ /\ hwFiles' = [hwFiles EXCEPT ![hwThreads[t].key] =
                           Append(@, NewHandle(hwThreads[t].addr))]
          /\ hwThreads' = [hwThreads EXCEPT ![t].pc = "p_write",
                                            ![t].handle = Len(hwFiles[hwThreads[t].key]) + 1]
    /\ UNCHANGED <<hwHandles, hwLock, hwMask, hwMcfg, hwCalls, hwAllowed, notHw>>

\* get_or_create_handle: let mut handles = self.handles.write()
PciWriteLock(t) ==
    /\ hwThreads[t].pc = "p_write"
    /\ can_write(hwLock)
    /\ hwLock' = [hwLock EXCEPT !.writer = t]
    /\ hwThreads' = [hwThreads EXCEPT ![t].pc = "p_insert"]
    /\ UNCHANGED <<hwHandles, hwFiles, hwMask, hwMcfg, hwCalls, hwAllowed, notHw>>

\* get_or_create_handle: handles.insert(*config_addr, Arc::clone(&handle));
\* Ok(handle): the caller's own handle is stored over any entry and returned
PciInsert(t) ==
    /\ hwThreads[t].pc = "p_insert"
    /\ hwHandles' = [hwHandles EXCEPT ![hwThreads[t].key] = hwThreads[t].handle]
    /\ hwLock' = [hwLock EXCEPT !.writer = 0]
    /\ hwThreads' = [hwThreads EXCEPT ![t].pc = "p_have"]
    /\ UNCHANGED <<hwFiles, hwMask, hwMcfg, hwCalls, hwAllowed, notHw>>

\* Pci::read32 / write32 / read64: the access through the handle returned,
\* and the return
PciHandleOp(t) ==
    /\ hwThreads[t].pc = "p_have"
    /\ hwThreads' = [hwThreads EXCEPT ![t] = HwReturn(hwThreads[t], "ok")]
    /\ UNCHANGED <<hwHandles, hwLock, hwFiles, hwMask, hwMcfg, hwCalls, hwAllowed, notHw>>

NextPci ==
    \E t \in HwThreadIds :
       \/ PciCall(t)
       \/ PciReadLock(t)
       \/ PciLookup(t)
       \/ PciFindGroupBus(t)
       \/ PciHandleNew(t)
       \/ PciWriteLock(t)
       \/ PciInsert(t)
       \/ PciHandleOp(t)

\* ------------------------------------------------ collection loop

\* The exporters of MetricCollector, in the order collection_loop spawns them.
Exporters == << "rapl", "rdt", "core", "imc", "cha", "irp", "iio" >>
ExporterNames == { Exporters[i] : i \in 1 .. Len(Exporters) }

\* Exporters that MetricCollector::new may have left as Some, loop ticks of a run.
MaxExporters == 2
MaxLoopTicks == 2

\* spawn_collector!(tasks, &self.<exporter>) without a retry for an exporter
\* whose last collection failed
spawn_collector_unless_failed(tasks, exporter) ==
    IF exporter \in loopExporters \ loopHist.failed
    THEN Append(tasks, [ exporter |-> exporter, state |-> "running" ])
    ELSE tasks

\* spawn_collector!(tasks, &self.<exporter>): a task for an exporter that is Some
spawn_collector(tasks, exporter) ==
    IF exporter \in loopExporters
    THEN Append(tasks, [ exporter |-> exporter, state |-> "running" ])
    ELSE tasks

\* The seven spawn_collector! lines of collection_loop
RECURSIVE SpawnAll(_, _)
SpawnAll(tasks, n) ==
    IF n = 0 THEN tasks
    ELSE spawn_collector(SpawnAll(tasks, n - 1), Exporters[n])

NoLoopCall == [ op |-> "none", exporter |-> "", outcome |-> "" ]

\* MetricCollector::new: any set of up to MaxExporters exporters initialized;
\* the gauges of each registered and never set.
LoopNew ==
    /\ loopExporters \in { s \in SUBSET ExporterNames : Cardinality(s) <= MaxExporters }
    /\ loopTasks = << >>
    /\ loopGauges = [ e \in ExporterNames |-> 0 ]
    /\ loopCall = NoLoopCall
    /\ loopHist = [ ticks |-> 0, failed |-> {} ]

\* interval.tick().await returns and the loop spawns the collection tasks.
LoopTick ==
    /\ loopTasks = << >>
    /\ loopHist.ticks < MaxLoopTicks
    /\ loopTasks' = SpawnAll(<< >>, Len(Exporters))
    /\ loopCall' = [ op |-> "tick", exporter |-> "", outcome |-> "" ]
    /\ loopHist' = [loopHist EXCEPT !.ticks = @ + 1]
    /\ UNCHANGED <<loopExporters, loopGauges, notLoop>>

\* A spawned task runs exp.collect().await to its end.  The collection succeeds
\* and sets the exporter's gauges, or fails (the exporter logs the error and
\* returns, having set its gauges or not), or panics.
LoopCollect ==
    /\ \E i \in 1 .. Len(loopTasks) :
       \E outcome \in { "ok", "err", "panic" } :
       \E written \in BOOLEAN :
          LET e == loopTasks[i].exporter
          IN /\ loopTasks[i].state = "running"
             /\ outcome = "ok" => written
             /\ loopTasks' = [loopTasks EXCEPT ![i].state =
                                IF outcome = "panic" THEN "panicked" ELSE "finished"]
             /\ loopGauges' = IF written
                              THEN [loopGauges EXCEPT ![e] = loopHist.ticks]
                              ELSE loopGauges
             /\ loopCall' = [ op |-> "collect", exporter |-> e, outcome |-> outcome ]
             /\ loopHist' = [loopHist EXCEPT !.failed =
                               IF outcome = "ok" THEN @ \ {e} ELSE @ \cup {e}]
    /\ UNCHANGED <<loopExporters, notLoop>>

\* for task in tasks { if let Err(e) = task.await { error!(..) } }: the loop
\* leaves the join when every task of the tick has ended, having logged the
\* JoinError of each task that panicked.
LoopAwait ==
    /\ loopTasks # << >>
    /\ \A i \in 1 .. Len(loopTasks) : loopTasks[i].state # "running"
    /\ loopTasks' = << >>
    /\ loopCall' = [ op |-> "await", exporter |-> "",
                     outcome |-> IF \E i \in 1 .. Len(loopTasks) :
                                        loopTasks[i].state = "panicked"
                                 THEN "logged" ELSE "" ]
    /\ UNCHANGED <<loopExporters, loopGauges, loopHist, notLoop>>

NextLoop == LoopTick \/ LoopCollect \/ LoopAwait

\* ------------------------------- the agent: main.rs, orchestrator/collector.rs

\* Ticks of a run, the longest time the tasks of a tick take (in periods of
\* the interval), constructors that fail at startup.
MaxAgentTicks == 3
MaxWork == 3
MaxCtorFails == 1

\* tokio::time::interval(Duration::from_secs(1))
TickPeriod == 1

\* The command lines and machines of the runs: the flags of CollectorConfig
\* that are set, and the exporters whose constructor returns an error.
AgentConfigs ==
    { [ flags |-> f, fails |-> x ] :
        f \in { s \in SUBSET ExporterNames : Cardinality(s) <= MaxExporters },
        x \in { s \in SUBSET ExporterNames : Cardinality(s) <= MaxCtorFails } }

\* init_exporter! that stores the exporter whatever its constructor returned
init_exporter_keep_failed(exporters, flags, fails, e) ==
    IF e \in flags THEN exporters \cup {e} ELSE exporters

\* init_exporter!: if the flag is set, the constructor runs; Ok stores the
\* exporter as Some, Err is logged and the field stays None
init_exporter(exporters, flags, fails, e) ==
    IF e \in flags /\ e \notin fails THEN exporters \cup {e} ELSE exporters

\* MetricCollector::new: every field None, then the seven init_exporter! lines
RECURSIVE InitExporters(_, _, _)
InitExporters(flags, fails, n) ==
    IF n = 0 THEN {}
    ELSE init_exporter(InitExporters(flags, fails, n - 1), flags, fails, Exporters[n])

MetricCollector_new(flags, fails) == InitExporters(flags, fails, Len(Exporters))

\* interval.tick().await at time t of an interval whose next deadline is
\* deadline: the tick completes at the deadline, at once when the deadline has
\* passed.  The loop sets no MissedTickBehavior, so the interval keeps the
\* default, Burst: the deadline that follows is one period after the deadline
\* of this tick, however late the tick was.
interval_tick(deadline, t) ==
    [ at |-> IF t < deadline THEN deadline ELSE t,
      deadline |-> deadline + TickPeriod ]

\* The process as main enters init_orchestrator_mode
AgentStart(cfg) ==
    [ phase |-> "init", flags |-> cfg.flags, fails |-> cfg.fails,
      exporters |-> {}, loop |-> "none", tasks |-> {}, clock |-> 0, deadline |-> 0,
      cancelled |-> FALSE, ticks |-> 0, collected |-> {}, op |-> "none" ]

AgentMain == \E cfg \in AgentConfigs : agent = AgentStart(cfg)

\* init_orchestrator_mode: MetricCollector::new, then start, which spawns
\* collection_loop; the first tick of a new interval completes at once.  main
\* goes on to serve until the shutdown signal.
AgentNew ==
    /\ agent.phase = "init"
    /\ agent' = [agent EXCEPT !.phase = "running",
                              !.exporters = MetricCollector_new(agent.flags, agent.fails),
                              !.loop = "tick",
                              !.deadline = agent.clock,
                              !.op = "new"]
    /\ UNCHANGED notAg

\* collection_loop: interval.tick().await returns and the seven
\* spawn_collector! lines spawn a task for every exporter that is Some.  The
\* loop has no other exit and looks at no cancellation token.
AgentTick ==
    /\ agent.phase \in { "running", "draining" }
    /\ agent.loop = "tick"
    /\ agent.ticks < MaxAgentTicks
    /\ agent' = [agent EXCEPT !.clock = interval_tick(agent.deadline, agent.clock).at,
                              !.deadline = interval_tick(agent.deadline, agent.clock).deadline,
                              !.tasks = agent.exporters,
                              !.loop = "join",
                              !.ticks = @ + 1,
                              !.op = "tick"]
    /\ UNCHANGED notAg

\* A spawned task: exp.collect().await runs to its end
AgentCollect ==
    /\ \E e \in agent.tasks :
          agent' = [agent EXCEPT !.tasks = @ \ {e},
                                 !.collected = @ \cup {e},
                                 !.op = "collect"]
    /\ UNCHANGED notAg

\* collection_loop: for task in tasks { task.await }: every task of the tick
\* has ended, work periods after the tick began (none without a task)
AgentJoin ==
    /\ agent.loop = "join"
    /\ agent.tasks = {}
    /\ \E work \in 0 .. MaxWork :
          /\ agent.exporters = {} => work = 0
          /\ agent' = [agent EXCEPT !.clock = @ + work,
                                    !.loop = "tick",
                                    !.op = "join"]
    /\ UNCHANGED notAg

\* shutdown_signal: SIGINT or SIGTERM arrives, cancel_token.cancel(); the
\* server shuts down and main awaits the JoinHandle of collection_loop, which
\* completes when collection_loop returns
AgentSignal ==
    /\ agent.phase = "running"
    /\ agent' = [agent EXCEPT !.phase = "draining", !.cancelled = TRUE, !.op = "signal"]
    /\ UNCHANGED notAg

NextAgent == AgentNew \/ AgentTick \/ AgentCollect \/ AgentJoin \/ AgentSignal

\* ------------------------------------------- the MCFG table: common/pci.rs

\* Records of the largest table.
MaxRecords == 3

\* size_of::<McfgHeader>() and size_of::<McfgRecord>() of the packed structs
McfgHeaderSize == 4 + 4 + 1 + 1 + 6 + 8 + 4 + 4 + 4 + 8
McfgRecordSize == 8 + 2 + 1 + 1 + 4

\* The table files of the runs: the length field of the header (a header and
\* whole or half records), and the bytes the file holds, up to that length.
\* A file shorter than its length field is truncated.
McfgFiles ==
    { [ length |-> McfgHeaderSize + 8 * j, size |-> 4 * i ] :
        j \in 0 .. (2 * MaxRecords), i \in 0 .. ((McfgHeaderSize + 16 * MaxRecords) \div 4) }

McfgTables == { f \in McfgFiles : f.size <= f.length }

\* McfgHeader::n_records
n_records(header) == (header.length - McfgHeaderSize) \div McfgRecordSize

\* file.read_exact of n bytes at offset pos of a file of size bytes
read_exact(size, pos, n) == pos + n <= size

\* The loop of Mcfg::new over the records: Err at the first record that
\* read_exact cannot fill, the records read so far dropped
RECURSIVE ReadRecords(_, _, _)
ReadRecords(file, done, n) ==
    IF done = n THEN [ ok |-> TRUE, kind |-> "", records |-> n ]
    ELSE IF read_exact(file.size, McfgHeaderSize + done * McfgRecordSize, McfgRecordSize)
         THEN ReadRecords(file, done + 1, n)
         ELSE [ ok |-> FALSE, kind |-> "PciError", records |-> 0 ]

\* Mcfg::new: the header, n_records, the records
Mcfg_new(file) ==
    IF ~ read_exact(file.size, 0, McfgHeaderSize)
    THEN [ ok |-> FALSE, kind |-> "PciError", records |-> 0 ]
    ELSE ReadRecords(file, 0, n_records([ length |-> file.length ]))

\* Mcfg::instance: INSTANCE.as_ref().unwrap() on the Lazy<Result<Mcfg>>: the
\* table, or a panic when Mcfg::new returned Err
Mcfg_instance(result) ==
    IF result.ok THEN [ outcome |-> "ok", kind |-> "", records |-> result.records ]
    ELSE [ outcome |-> "panic", kind |-> result.kind, records |-> 0 ]

NoMcfgCall == [ outcome |-> "none", kind |-> "", records |-> 0 ]

McfgStart(file) ==
    [ file |-> file, lazy |-> "uninit",
      result |-> [ ok |-> FALSE, kind |-> "", records |-> 0 ],
      call |-> NoMcfgCall, calls |-> 0 ]

McfgBoot == \E file \in McfgTables : mcfg = McfgStart(file)

\* The first Mcfg::instance(): the Lazy runs Mcfg::new and keeps its result
McfgFirstInstance ==
    /\ mcfg.lazy = "uninit"
    /\ mcfg' = [mcfg EXCEPT !.lazy = IF Mcfg_new(mcfg.file).ok THEN "table" ELSE "error",
                            !.result = Mcfg_new(mcfg.file),
                            !.call = Mcfg_instance(Mcfg_new(mcfg.file)),
                            !.calls = 1]
    /\ UNCHANGED notMcfg

\* A later Mcfg::instance(): the result the Lazy kept
McfgInstance ==
    /\ mcfg.lazy # "uninit"
    /\ mcfg.calls < 2
    /\ mcfg' = [mcfg EXCEPT !.call = Mcfg_instance(mcfg.result), !.calls = @ + 1]
    /\ UNCHANGED notMcfg

NextMcfg == McfgFirstInstance \/ McfgInstance

\* ------------------------------------------------ IRP monitor
\* common/arch.rs (CPU_ARCH, detect_architecture), counters/irp/monitor.rs
\* (IrpMonitor), prom/irp.rs (IrpMetricExporter), for one socket.

\* bits [shift, shift + width) of a word
BitField(w, shift, width) == (w \div Pow2(shift)) % Pow2(width)

\* A CPUID leaf 1 eax word from its fields
CpuidEax(extended_family, extended_model, family, model, stepping) ==
    extended_family * Pow2(20) + extended_model * Pow2(16)
        + family * Pow2(8) + model * Pow2(4) + stepping

\* The processors of the runs: family 6 with display models 0x2D, 0x3C, 0x3F,
\* 0x4F, 0x6A and 0x8F, display model 0x55 at steppings 4 and 5, a family 0xF
\* part and a family 5 part.
CpuidWords ==
    { CpuidEax(0, 2, 6, 13, 7), CpuidEax(0, 3, 6, 12, 3), CpuidEax(0, 3, 6, 15, 2),
      CpuidEax(0, 4, 6, 15, 1), CpuidEax(0, 5, 6, 5, 4), CpuidEax(0, 5, 6, 5, 5),
      CpuidEax(0, 6, 6, 10, 6), CpuidEax(0, 8, 6, 15, 8),
      CpuidEax(8, 0, 15, 1, 2), CpuidEax(0, 0, 5, 2, 12) }

\* detect_architecture on the eax word of CPUID leaf 1
detect_architecture(eax) ==
    LET stepping == BitField(eax, 0, 4)
        model == BitField(eax, 4, 4)
        family == BitField(eax, 8, 4)
        extended_model == BitField(eax, 16, 4)
        extended_family == BitField(eax, 20, 8)
        display_family == IF family = 15 THEN family + extended_family ELSE family
        display_model == IF family = 6 \/ family = 15
                         THEN extended_model * 16 + model ELSE model
    IN  IF display_family # 6 THEN "Unknown"
        ELSE IF display_model \in { 60, 69, 70 } THEN "Haswell"
        ELSE IF display_model \in { 61, 71, 79, 86 } THEN "Broadwell"
        ELSE IF display_model \in { 78, 94 } THEN "Skylake"
        ELSE IF display_model = 85
             THEN IF stepping >= 5 THEN "CascadeLake" ELSE "Skylake"
        ELSE IF display_model \in { 125, 126, 106, 108 } THEN "IceLake"
        ELSE IF display_model >= 78 THEN "Skylake"
        ELSE "Unknown"

\* *CPU_ARCH: the Lazy value once forced, detect_architecture at the first use
CPU_ARCH(st) == IF st.arch = "uninit" THEN detect_architecture(st.eax) ELSE st.arch

IRP_EVENTS ==
    << [ name |-> "All", event0 |-> 15, umask0 |-> 1, event1 |-> 16, umask1 |-> 255 ],
       [ name |-> "Clockticks", event0 |-> 15, umask0 |-> 1, event1 |-> 1, umask1 |-> 0 ],
       [ name |-> "PCIeRead", event0 |-> 15, umask0 |-> 1, event1 |-> 16, umask1 |-> 1 ],
       [ name |-> "RFO", event0 |-> 15, umask0 |-> 1, event1 |-> 16, umask1 |-> 8 ],
       [ name |-> "PCIItoM", event0 |-> 15, umask0 |-> 1, event1 |-> 16, umask1 |-> 16 ],
       [ name |-> "WbMtoI", event0 |-> 15, umask0 |-> 1, event1 |-> 16, umask1 |-> 64 ],
       [ name |-> "CLFlush", event0 |-> 15, umask0 |-> 1, event1 |-> 16, umask1 |-> 128 ] >>

IrpEventNames == { IRP_EVENTS[i].name : i \in 1 .. Len(IRP_EVENTS) }

\* IrpMetric::all()
IrpMetric ==
    { "IRPLatency", "IRPAnyOccupancy", "IRPPCIeReadBandwidth", "IRPRFOBandwidth",
      "IRPAllBandwidth", "IRPPCIItoMBandwidth", "IRPWbMtoIBandwidth",
      "IRPCLFlushBandwidth", "IRPFrequency" }

IRP_DEVICE_ID == 28473
IRP_VENDOR_ID == 32902

\* The vendor/device words the IRP function of the socket may answer with:
\* the expected device, another device of the vendor, another vendor.
IrpDeviceWords ==
    { IRP_DEVICE_ID * Pow2(16) + IRP_VENDOR_ID,
      (IRP_DEVICE_ID - Pow2(14)) * Pow2(16) + IRP_VENDOR_ID,
      IRP_DEVICE_ID * Pow2(16) + 4660 }

\* IrpPciCounterUnit::new: the device check on the word at offset 0
IrpPciCounterUnit_new(vendor_device) ==
    LET vendor == BitField(vendor_device, 0, 16)
        device == BitField(vendor_device, 16, 16)
    IN  vendor = IRP_VENDOR_ID /\ device = IRP_DEVICE_ID

\* IrpMonitor::new: the counter units of the architecture
IrpMonitor_new(arch, vendor_device) ==
    IF arch \in { "Skylake", "CascadeLake", "IceLake" }
    THEN [ ok |-> TRUE, units |-> << "Msr", "Msr", "Msr" >>, err |-> "" ]
    ELSE IF arch \in { "Haswell", "Broadwell" }
    THEN IF IrpPciCounterUnit_new(vendor_device)
         THEN [ ok |-> TRUE, units |-> << "Pci" >>, err |-> "" ]
         ELSE [ ok |-> FALSE, units |-> << >>, err |-> "PciError" ]
    ELSE [ ok |-> FALSE, units |-> << >>, err |-> "UnsupportedArchitecture" ]

\* The control word of one counter: (umask << 8) | event | (1 << 22)
ctrl_value(um, ev) == um * Pow2(8) + ev + Pow2(22)

\* IrpPciCounterUnit::program: the four control words of a pair of events
IrpPciCounterUnit_program(config0, config1) ==
    << ctrl_value(config0.umask0, config0.event0), ctrl_value(config0.umask1, config0.event1),
       ctrl_value(config1.umask0, config1.event0), ctrl_value(config1.umask1, config1.event1) >>

\* IrpMsrCounterUnit::program: the two control words of one event
IrpMsrCounterUnit_program(config) ==
    << ctrl_value(config.umask0, config.event0), ctrl_value(config.umask1, config.event1) >>

\* The traffic of one collection: the occupancy every event's first counter
\* accumulates, and what the second counter counts under the All, the
\* Clockticks and the other events.
IrpLoads == [ occ : { 0, 6 }, all : { 0, 4 }, clk : { 0, 2 }, cnt : { 1 } ]

\* What one unit's two counters read after a second under an event
IrpRead(load, name) ==
    << load.occ,
       IF name = "All" THEN load.all ELSE IF name = "Clockticks" THEN load.clk ELSE load.cnt >>

\* The hardware access that fails in a collection: none, or the programming
\* or the reading of one step
IrpNoFault == [ op |-> "none", step |-> 0 ]
IrpFaults ==
    { IrpNoFault } \cup [ op : { "program", "read" }, step : 1 .. Len(IRP_EVENTS) ]

IrpInsert(map, key, value) ==
    [ k \in (DOMAIN map) \cup { key } |-> IF k = key THEN value ELSE map[k] ]

\* IrpMonitor::calculate_event_metrics: the metrics map after the event, the
\* values as ratios with the measurement of one second as the unit of time
calculate_event_metrics(event_results, event_name, values, metrics) ==
    IF event_name = "Clockticks"
    THEN LET withFrequency == IrpInsert(metrics, "IRPFrequency", Ratio(values[2], 1))
         IN  IF "All" \in DOMAIN event_results
             THEN IrpInsert(withFrequency, "IRPAnyOccupancy",
                            Ratio(event_results["All"][1], values[2]))
             ELSE withFrequency
    ELSE IF event_name = "All"
    THEN LET withLatency ==
                 IF "Clockticks" \in DOMAIN event_results
                 THEN IrpInsert(metrics, "IRPLatency",
                                IF values[2] > 0
                                THEN Ratio(values[1] * event_results["Clockticks"][2], values[2])
                                ELSE Ratio(0, 1))
                 ELSE metrics
         IN  IrpInsert(withLatency, "IRPAllBandwidth", Ratio(values[2] * CACHELINE_SIZE, 1))
    ELSE IF event_name = "PCIeRead"
    THEN IrpInsert(metrics, "IRPPCIeReadBandwidth", Ratio(values[2] * CACHELINE_SIZE, 1))
    ELSE IF event_name = "RFO"
    THEN IrpInsert(metrics, "IRPRFOBandwidth", Ratio(values[2] * CACHELINE_SIZE, 1))
    ELSE IF event_name = "PCIItoM"
    THEN IrpInsert(metrics, "IRPPCIItoMBandwidth", Ratio(values[2] * CACHELINE_SIZE, 1))
    ELSE IF event_name = "WbMtoI"
    THEN IrpInsert(metrics, "IRPWbMtoIBandwidth", Ratio(values[2] * CACHELINE_SIZE, 1))
    ELSE IF event_name = "CLFlush"
    THEN IrpInsert(metrics, "IRPCLFlushBandwidth", Ratio(values[2] * CACHELINE_SIZE, 1))
    ELSE metrics

\* One event of a collection: its sample stored, its metrics calculated
IrpRecord(run, name, values) ==
    [ run EXCEPT !.event_results = IrpInsert(@, name, values),
                 !.sampled = @ \cup { name },
                 !.metrics = calculate_event_metrics(
                                 IrpInsert(run.event_results, name, values),
                                 name, values, @) ]

\* A fresh monitor's collection: nothing programmed, sampled or calculated
IrpRunStart ==
    [ ok |-> TRUE, programmed |-> << >>, controls |-> << >>, sampled |-> {},
      event_results |-> << >>, metrics |-> << >> ]

\* The MSR arm of collect_metrics: every event in turn on the units
RECURSIVE CollectMsr(_, _, _, _, _)
CollectMsr(units, i, load, fault, run) ==
    IF i > Len(IRP_EVENTS) THEN run
    ELSE IF fault = [ op |-> "program", step |-> i ] THEN [ run EXCEPT !.ok = FALSE ]
    ELSE LET config == IRP_EVENTS[i]
             programmed == [ run EXCEPT !.programmed = Append(@, << config.name >>),
                                        !.controls = Append(@, IrpMsrCounterUnit_program(config)) ]
             aggregated == << Len(units) * IrpRead(load, config.name)[1],
                              Len(units) * IrpRead(load, config.name)[2] >>
         IN  IF fault = [ op |-> "read", step |-> i ]
             THEN [ programmed EXCEPT !.ok = FALSE ]
             ELSE CollectMsr(units, i + 1, load, fault,
                             IrpRecord(programmed, config.name, aggregated))

\* The PCI arm of collect_metrics: for i in (0..len).step_by(2), the pair
\* (i, i + 1) when i + 1 < len
RECURSIVE CollectPci(_, _, _, _)
CollectPci(i, load, fault, run) ==
    IF i >= Len(IRP_EVENTS) THEN run
    ELSE IF ~ (i + 1 < Len(IRP_EVENTS)) THEN CollectPci(i + 2, load, fault, run)
    ELSE IF fault = [ op |-> "program", step |-> (i \div 2) + 1 ]
         THEN [ run EXCEPT !.ok = FALSE ]
    ELSE LET config0 == IRP_EVENTS[i + 1]
             config1 == IRP_EVENTS[i + 2]
             programmed ==
                 [ run EXCEPT !.programmed = Append(@, << config0.name, config1.name >>),
                              !.controls = Append(@, IrpPciCounterUnit_program(config0, config1)) ]
             values == IrpRead(load, config0.name) \o IrpRead(load, config1.name)
         IN  IF fault = [ op |-> "read", step |-> (i \div 2) + 1 ]
             THEN [ programmed EXCEPT !.ok = FALSE ]
             ELSE CollectPci(i + 2, load, fault,
                      IrpRecord(IrpRecord(programmed, config0.name, << values[1], values[2] >>),
                                config1.name, << values[3], values[4] >>))

\* IrpMonitor::collect_metrics on a new monitor: Err drops the metrics
IrpMonitor_collect_metrics(monitor, load, fault) ==
    LET run == IF monitor.units = << >> THEN [ IrpRunStart EXCEPT !.ok = FALSE ]
               ELSE IF monitor.units[1] = "Msr"
               THEN CollectMsr(monitor.units, 1, load, fault, IrpRunStart)
               ELSE CollectPci(0, load, fault, IrpRunStart)
    IN  IF run.ok THEN run ELSE [ run EXCEPT !.metrics = << >> ]

NoIrpCall ==
    [ outcome |-> "none", mode |-> "none", programmed |-> << >>, controls |-> << >>,
      sampled |-> {}, event_results |-> << >>, metrics |-> << >> ]

IrpStart(eax, device) ==
    [ eax |-> eax, device |-> device, arch |-> "uninit", phase |-> "boot",
      monitor |-> [ ok |-> FALSE, units |-> << >>, err |-> "" ],
      gauges |-> [ m \in IrpMetric |-> Ratio(0, 1) ],
      call |-> NoIrpCall ]

IrpBoot == \E eax \in CpuidWords, device \in IrpDeviceWords : irp = IrpStart(eax, device)

\* The first use of CPU_ARCH by another part of the agent
CpuArchForce ==
    /\ irp.arch = "uninit"
    /\ irp' = [irp EXCEPT !.arch = CPU_ARCH(irp)]
    /\ UNCHANGED notIrp

\* IrpMetricExporter::new: the monitor of the socket, or its error
IrpExporterNew ==
    /\ irp.phase = "boot"
    /\ irp' = [irp EXCEPT !.arch = CPU_ARCH(irp),
                          !.monitor = IrpMonitor_new(CPU_ARCH(irp), irp.device),
                          !.phase = IF IrpMonitor_new(CPU_ARCH(irp), irp.device).ok
                                    THEN "exporting" ELSE "failed"]
    /\ UNCHANGED notIrp

\* IrpMetricExporter::collect: a new monitor, its collect_metrics, the gauges
\* of the metrics it returned
IrpCollect ==
    /\ irp.phase = "exporting"
    /\ \E load \in IrpLoads, fault \in IrpFaults :
       \E monitor \in { IrpMonitor_new(CPU_ARCH(irp), irp.device) } :
       \E run \in { IrpMonitor_collect_metrics(monitor, load, fault) } :
         irp' = [irp EXCEPT
                 !.gauges = IF monitor.ok /\ run.ok
                            THEN [ m \in IrpMetric |->
                                     IF m \in DOMAIN run.metrics THEN run.metrics[m] ELSE @[m] ]
                            ELSE @,
                 !.call = IF ~ monitor.ok THEN [ NoIrpCall EXCEPT !.outcome = "skipped" ]
                          ELSE [ outcome |-> IF run.ok THEN "ok" ELSE "err",
                                 mode |-> monitor.units[1],
                                 programmed |-> run.programmed,
                                 controls |-> run.controls,
                                 sampled |-> run.sampled,
                                 event_results |-> run.event_results,
                                 metrics |-> run.metrics ]]
    /\ UNCHANGED notIrp

NextIrp == CpuArchForce \/ IrpExporterNew \/ IrpCollect

\* ------------------------------------------------ register layouts
\* uncflow-raw: the RegisterLayout implementations of arch/skylake/cha.rs and
\* arch/skylake/iio.rs. A 64-bit word is the set of the positions of its one
\* bits, so that | is \cup and & is \cap.

WordBits == 0 .. 63

\* (v as u64 & mask) for a mask of width ones: the one bits of v below width
BitsOf(v, width) == { i \in 0 .. (width - 1) : (v \div Pow2(i)) % 2 = 1 }

\* word << n on 64 bits
Shl(w, n) == { b + n : b \in w } \cap WordBits

\* if flag { 1 << pos } else { 0 }
FlagBit(flag, pos) == IF flag THEN { pos } ELSE {}

\* ((value >> shift) & mask) for a mask of width ones, as a number
RECURSIVE FieldOf(_, _, _)
FieldOf(w, shift, width) ==
    IF width = 0 THEN 0
    ELSE (IF shift \in w THEN 1 ELSE 0) + 2 * FieldOf(w, shift + 1, width - 1)

ChaBoxControl_to_msr_value(s) ==
    FlagBit(s.freeze, 0) \cup FlagBit(s.freeze_enable, 8)
        \cup FlagBit(s.reset_counters, 1) \cup FlagBit(s.reset_control, 2)
        \cup FlagBit(~ s.freeze /\ s.freeze_enable, 16)

ChaBoxControl_from_msr_value(w) ==
    [ freeze |-> 0 \in w, freeze_enable |-> 8 \in w,
      reset_counters |-> 1 \in w, reset_control |-> 2 \in w ]

ChaCounterControl_to_msr_value(s) ==
    BitsOf(s.event_select, 8) \cup Shl(BitsOf(s.unit_mask, 8), 8)
        \cup Shl(BitsOf(s.queue_occupancy_select, 2), 16)
        \cup FlagBit(s.edge_detect, 18) \cup FlagBit(s.enable, 22)
        \cup FlagBit(s.invert, 23) \cup Shl(BitsOf(s.threshold, 6), 24)
        \cup FlagBit(s.occupancy_invert, 30) \cup FlagBit(s.occupancy_edge_detect, 31)

ChaCounterControl_from_msr_value(w) ==
    [ event_select |-> FieldOf(w, 0, 8), unit_mask |-> FieldOf(w, 8, 8),
      queue_occupancy_select |-> FieldOf(w, 16, 2), edge_detect |-> 18 \in w,
      enable |-> 22 \in w, invert |-> 23 \in w, threshold |-> FieldOf(w, 24, 6),
      occupancy_invert |-> 30 \in w, occupancy_edge_detect |-> 31 \in w ]

ChaCounterControl_validate(s) == s.threshold <= 63 /\ s.queue_occupancy_select <= 3

\* state is a u8 and is shifted whole
ChaFilter1_to_msr_value(s) == BitsOf(s.tid, 17) \cup Shl(BitsOf(s.state, 8), 17)

ChaFilter1_from_msr_value(w) == [ tid |-> FieldOf(w, 0, 17), state |-> FieldOf(w, 17, 7) ]

ChaFilter1_validate(s) == s.tid <= 131071

IioCounterControl_to_msr_value(s) ==
    BitsOf(s.event_select, 8) \cup Shl(BitsOf(s.unit_mask, 8), 8)
        \cup FlagBit(s.reset_counter, 17) \cup FlagBit(s.edge_detect, 18)
        \cup FlagBit(s.thread_id_enable, 19) \cup FlagBit(s.overflow_enable, 20)
        \cup FlagBit(s.enable, 22) \cup FlagBit(s.invert, 23)
        \cup Shl(BitsOf(s.threshold, 12), 24) \cup Shl(BitsOf(s.channel_mask, 8), 36)
        \cup Shl(BitsOf(s.fc_mask, 3), 44)

IioCounterControl_from_msr_value(w) ==
    [ event_select |-> FieldOf(w, 0, 8), unit_mask |-> FieldOf(w, 8, 8),
      reset_counter |-> 17 \in w, edge_detect |-> 18 \in w,
      thread_id_enable |-> 19 \in w, overflow_enable |-> 20 \in w,
      enable |-> 22 \in w, invert |-> 23 \in w, threshold |-> FieldOf(w, 24, 12),
      channel_mask |-> FieldOf(w, 36, 8), fc_mask |-> FieldOf(w, 44, 3) ]

RegisterLayouts == { "ChaBoxControl", "ChaCounterControl", "ChaFilter1", "IioCounterControl" }

\* Register<T>::to_msr_value, from_msr_value and validate: those of the layout
\* (ChaBoxControl keeps the trait's validate, which accepts every value)
to_msr_value(layout, s) ==
    CASE layout = "ChaBoxControl" -> ChaBoxControl_to_msr_value(s)
      [] layout = "ChaCounterControl" -> ChaCounterControl_to_msr_value(s)
      [] layout = "ChaFilter1" -> ChaFilter1_to_msr_value(s)
      [] layout = "IioCounterControl" -> IioCounterControl_to_msr_value(s)

from_msr_value(layout, w) ==
    CASE layout = "ChaBoxControl" -> ChaBoxControl_from_msr_value(w)
      [] layout = "ChaCounterControl" -> ChaCounterControl_from_msr_value(w)
      [] layout = "ChaFilter1" -> ChaFilter1_from_msr_value(w)
      [] layout = "IioCounterControl" -> IioCounterControl_from_msr_value(w)

Register_validate(layout, s) ==
    CASE layout = "ChaBoxControl" -> TRUE
      [] layout = "ChaCounterControl" -> ChaCounterControl_validate(s)
      [] layout = "ChaFilter1" -> ChaFilter1_validate(s)
      [] layout = "IioCounterControl" -> validate(s)

\* The struct values of the runs: every field at values inside its bit-width,
\* at the width's maximum and, where its Rust type is wider, beyond it.
RegisterValues(layout) ==
    CASE layout = "ChaBoxControl" ->
           [ freeze : BOOLEAN, freeze_enable : BOOLEAN,
             reset_counters : BOOLEAN, reset_control : BOOLEAN ]
      [] layout = "ChaCounterControl" ->
           [ event_select : { 54 }, unit_mask : { 20, 255 },
             queue_occupancy_select : { 0, 3, 4 }, edge_detect : { FALSE },
             enable : BOOLEAN, invert : { FALSE }, threshold : { 10, 63, 64 },
             occupancy_invert : { FALSE }, occupancy_edge_detect : BOOLEAN ]
      [] layout = "ChaFilter1" ->
           [ tid : { 0, 5, 131071, 131072 }, state : { 0, 64, 127, 128, 255 } ]
      [] layout = "IioCounterControl" ->
           [ event_select : { 65 }, unit_mask : { 32 }, reset_counter : { TRUE },
             edge_detect : { FALSE }, thread_id_enable : { FALSE },
             overflow_enable : { TRUE }, enable : BOOLEAN, invert : { FALSE },
             threshold : { 0, 100, 4095, 4096 }, channel_mask : { 0, 255 },
             fc_mask : { 0, 7, 8 } ]

\* The words of the runs: every choice of the bits 0, 8, 16, 24, 30 and 47,
\* and the word of all ones.
RegisterWords == (SUBSET { 0, 8, 16, 24, 30, 47 }) \cup { WordBits }

NoWord == { -1 }
NoStruct == [ none |-> TRUE ]

RegStart(layout, s, w) ==
    [ layout |-> layout, s |-> s, w |-> w, valid |-> "unchecked",
      encoded |-> NoWord, decoded |-> NoStruct,
      parsed |-> NoStruct, reencoded |-> NoWord ]

RegNew ==
    \E layout \in RegisterLayouts :
      \E s \in RegisterValues(layout), w \in RegisterWords :
        regLayout = RegStart(layout, s, w)

\* register.validate()
RegValidate ==
    /\ regLayout.valid = "unchecked"
    /\ regLayout' = [regLayout EXCEPT
           !.valid = IF Register_validate(regLayout.layout, regLayout.s) THEN "ok" ELSE "err"]
    /\ UNCHANGED notReg

\* register.to_msr_value(): the word written to the MSR
RegEncode ==
    /\ regLayout.encoded = NoWord
    /\ regLayout' = [regLayout EXCEPT !.encoded = to_msr_value(regLayout.layout, regLayout.s)]
    /\ UNCHANGED notReg

\* T::from_msr_value on the word that was written
RegDecode ==
    /\ regLayout.encoded # NoWord
    /\ regLayout.decoded = NoStruct
    /\ regLayout' = [regLayout EXCEPT
           !.decoded = from_msr_value(regLayout.layout, regLayout.encoded)]
    /\ UNCHANGED notReg

\* T::from_msr_value on a word read from the MSR
RegParse ==
    /\ regLayout.parsed = NoStruct
    /\ regLayout' = [regLayout EXCEPT !.parsed = from_msr_value(regLayout.layout, regLayout.w)]
    /\ UNCHANGED notReg

\* to_msr_value of the struct parsed from the word
RegReencode ==
    /\ regLayout.parsed # NoStruct
    /\ regLayout.reencoded = NoWord
    /\ regLayout' = [regLayout EXCEPT
           !.reencoded = to_msr_value(regLayout.layout, regLayout.parsed)]
    /\ UNCHANGED notReg

NextReg == RegValidate \/ RegEncode \/ RegDecode \/ RegParse \/ RegReencode

\* ------------------------------------------------ CHA metric calculator
\* metrics/cha/calculator.rs. An f64 is kept as a pair <<n, d>> standing for
\* n / d, with d = 0 for what IEEE division by zero gives: <<n, 0>> with n > 0
\* is infinite, <<0, 0>> is NaN.

FDiv(a, b) == << a[1] * b[2], a[2] * b[1] >>
FMul(a, b) == << a[1] * b[1], a[2] * b[2] >>
FZero == F64(0)
FIsZero(x) == x[1] = 0 /\ x[2] # 0
FIsFinite(x) == x[2] # 0

\* calculate_bandwidth: a Duration is a number of nanoseconds; seconds is
\* nanos / 1e9, so (bytes / seconds) / 1e9 is bytes / nanos
calculate_bandwidth(insert, duration) ==
    IF duration = 0 THEN FZero
    ELSE FDiv(F64(insert * CACHELINE_SIZE), F64(duration))

calculate_latency_unguarded(occupancy, insert, clockticks, duration) ==
    FMul(FDiv(F64(occupancy), F64(insert)), FDiv(F64(clockticks), F64(duration)))

calculate_latency(occupancy, insert, clockticks, duration) ==
    IF insert = 0 \/ clockticks = 0 THEN FZero
    ELSE FMul(FDiv(F64(occupancy), F64(insert)), FDiv(F64(clockticks), F64(duration)))

calculate_hit_rate(hit_insert, miss_insert) ==
    LET total == hit_insert + miss_insert
    IN  IF total = 0 THEN FZero ELSE FDiv(F64(hit_insert), F64(total))

calculate_occupancy(occupancy, clockticks) ==
    IF clockticks = 0 THEN FZero ELSE FDiv(F64(occupancy), F64(clockticks))

\* RawEventData of the runs: counts of 0, 1 and 3, durations of 0 and 2 ns
RawEventData == [ occupancy : { 0, 3 }, insert : { 0, 1, 3 }, clockticks : { 0, 3 },
                  duration : { 0, 2 } ]

NoCalcCall == [ op |-> "none", value |-> FZero ]

CalcStart(hit, miss) == [ hit |-> hit, miss |-> miss, call |-> NoCalcCall ]

CalcNew == \E hit \in RawEventData, miss \in RawEventData : calc = CalcStart(hit, miss)

\* The calculations of calculate_transaction_metrics on the hit event (the
\* hit rate on the hit and the miss event)
CalcBandwidth ==
    /\ calc' = [calc EXCEPT !.call =
           [ op |-> "bandwidth",
             value |-> calculate_bandwidth(calc.hit.insert, calc.hit.duration) ]]
    /\ UNCHANGED notCalc

CalcLatency ==
    /\ calc' = [calc EXCEPT !.call =
           [ op |-> "latency",
             value |-> calculate_latency(calc.hit.occupancy, calc.hit.insert,
                                         calc.hit.clockticks, calc.hit.duration) ]]
    /\ UNCHANGED notCalc

CalcHitRate ==
    /\ calc' = [calc EXCEPT !.call =
           [ op |-> "hit_rate",
             value |-> calculate_hit_rate(calc.hit.insert, calc.miss.insert) ]]
    /\ UNCHANGED notCalc

CalcOccupancy ==
    /\ calc' = [calc EXCEPT !.call =
           [ op |-> "occupancy",
             value |-> calculate_occupancy(calc.hit.occupancy, calc.hit.clockticks) ]]
    /\ UNCHANGED notCalc

NextCalc == CalcBandwidth \/ CalcLatency \/ CalcHitRate \/ CalcOccupancy

\* ------------------------------------------------ RDT event select
\* uncflow-raw arch/skylake/rdt.rs: QmEventSelect::to_msr_value
\* (self.rmid as u64) | ((self.event_id as u64) << 32), as a set of bit
\* positions (the RMIDs of the runs are below 2^31)
QmEventSelect_to_msr_value(s) ==
    BitsOf(s.rmid, 31) \cup Shl(BitsOf(s.event_id, 8), 32)

\* The word update_socket_metrics writes to IA32_QM_EVTSEL for the pair
\* (rmid, event) the register holds: ((rmid as u64) << 32) | event
QmEvtselWord(written) ==
    Shl(BitsOf(written[1], 31), 32) \cup BitsOf(written[2], 31)

\* ------------------------------------------------ measurement order
\* iio/monitor.rs try_collect_programmable_metrics and irp/monitor.rs
\* collect_metrics as the sequence of the steps one collection takes: the
\* program call on a unit (ok or failed), the measurement sleep, the counter
\* read of a unit, the insertion of a configuration's values in event_results.

MaxMeasurements == 2

MeasureStep(op, configs, unit, ok) ==
    [ op |-> op, configs |-> configs, unit |-> unit, ok |-> ok ]

\* for unit in units { op(unit)? }: the calls up to the first one that fails
UnitSteps(op, configs, count, okOf(_)) ==
    LET failed == { u \in 0 .. (count - 1) : ~ okOf(u) }
        last == IF failed = {} THEN count - 1
                ELSE CHOOSE u \in failed : \A v \in failed : u <= v
    IN  [ i \in 1 .. (last + 1) |-> MeasureStep(op, configs, i - 1, okOf(i - 1)) ]

AllOk(steps) == \A i \in 1 .. Len(steps) : steps[i].ok

\* The faults of an IIO collection that concern the programmable counters
IioMeasureFaults == { f \in IioFaults : ~ f.pcie }

\* One pass of the loop over IIO_EVENTS with the sleep and the reads done
\* although the programming failed
IioGroupSteps_unchecked(g, fault) ==
    LET configs == { IIO_EVENTS[g].name }
        programOk(u) ==
            program(IioUnitReset, IIO_EVENTS[g],
                    IF fault.kind = "program" /\ fault.group = g /\ fault.unit = u
                    THEN fault.step ELSE 0).ok
        readOk(u) == ~ (fault.kind = "read" /\ fault.group = g /\ fault.unit = u)
        programs == UnitSteps("program", configs, IIO_CHANNEL_COUNT, programOk)
        reads == UnitSteps("read", configs, IIO_CHANNEL_COUNT, readOk)
        sleep == << MeasureStep("sleep", configs, 0, TRUE) >>
    IN  IF ~ AllOk(reads)
        THEN [ ok |-> FALSE, steps |-> programs \o sleep \o reads ]
        ELSE [ ok |-> AllOk(programs),
               steps |-> programs \o sleep \o reads
                         \o << MeasureStep("record", configs, 0, TRUE) >> ]

\* One pass of the loop over IIO_EVENTS: program every unit (return false on
\* the first failure), sleep, read every unit (return false on the first
\* failure), event_results.insert
IioGroupSteps(g, fault) ==
    LET configs == { IIO_EVENTS[g].name }
        programOk(u) ==
            program(IioUnitReset, IIO_EVENTS[g],
                    IF fault.kind = "program" /\ fault.group = g /\ fault.unit = u
                    THEN fault.step ELSE 0).ok
        readOk(u) == ~ (fault.kind = "read" /\ fault.group = g /\ fault.unit = u)
        programs == UnitSteps("program", configs, IIO_CHANNEL_COUNT, programOk)
        reads == UnitSteps("read", configs, IIO_CHANNEL_COUNT, readOk)
        sleep == << MeasureStep("sleep", configs, 0, TRUE) >>
    IN  IF ~ AllOk(programs)
        THEN [ ok |-> FALSE, steps |-> programs ]
        ELSE IF ~ AllOk(reads)
        THEN [ ok |-> FALSE, steps |-> programs \o sleep \o reads ]
        ELSE [ ok |-> TRUE,
               steps |-> programs \o sleep \o reads
                         \o << MeasureStep("record", configs, 0, TRUE) >> ]

RECURSIVE IioMeasureFrom(_, _)
IioMeasureAfter(g, r, fault) ==
    IF ~ r.ok THEN r
    ELSE LET rest == IioMeasureFrom(g + 1, fault)
         IN  [ ok |-> rest.ok, steps |-> r.steps \o rest.steps ]

\* for event_config in IIO_EVENTS { ... } from group g on
IioMeasureFrom(g, fault) ==
    IF g > Len(IIO_EVENTS) THEN [ ok |-> TRUE, steps |-> << >> ]
    ELSE IioMeasureAfter(g, IioGroupSteps(g, fault), fault)

\* The faults of an IRP collection: the programming or the reading of one
\* unit in one pass of the loop
IrpMeasureFaults ==
    { [ op |-> "none", step |-> 0, unit |-> 0 ] }
    \cup [ op : { "program", "read" }, step : 1 .. Len(IRP_EVENTS), unit : 0 .. 2 ]

\* MSR mode, the pass of the event i: unit.program(event_config)? on every
\* unit, the sleep, unit.read_counters()? on every unit, event_results.insert
IrpMsrEventSteps(i, count, fault) ==
    LET configs == { IRP_EVENTS[i].name }
        programOk(u) == fault # [ op |-> "program", step |-> i, unit |-> u ]
        readOk(u) == fault # [ op |-> "read", step |-> i, unit |-> u ]
        programs == UnitSteps("program", configs, count, programOk)
        reads == UnitSteps("read", configs, count, readOk)
        sleep == << MeasureStep("sleep", configs, 0, TRUE) >>
    IN  IF ~ AllOk(programs)
        THEN [ ok |-> FALSE, steps |-> programs ]
        ELSE IF ~ AllOk(reads)
        THEN [ ok |-> FALSE, steps |-> programs \o sleep \o reads ]
        ELSE [ ok |-> TRUE,
               steps |-> programs \o sleep \o reads
                         \o << MeasureStep("record", configs, 0, TRUE) >> ]

\* PCI mode, the pass of the pair (i, i + 1), i counted from 0:
\* unit.program_pci_pair(config0, config1)? on every unit, the sleep, then for
\* every unit read_counters()? and the insertion of both events
IrpPciPairSteps(i, count, fault) ==
    LET config0 == IRP_EVENTS[i + 1].name
        config1 == IRP_EVENTS[i + 2].name
        configs == { config0, config1 }
        pass == (i \div 2) + 1
        programOk(u) == fault # [ op |-> "program", step |-> pass, unit |-> u ]
        readOk(u) == fault # [ op |-> "read", step |-> pass, unit |-> u ]
        programs == UnitSteps("program", configs, count, programOk)
        reads == UnitSteps("read", configs, count, readOk)
        sleep == << MeasureStep("sleep", configs, 0, TRUE) >>
        \* the read of unit u, followed by its two insertions when it succeeded
        unitReads ==
            [ k \in 1 .. (3 * Len(reads)) |->
                LET r == reads[((k - 1) \div 3) + 1]
                IN  IF (k - 1) % 3 = 0 THEN r
                    ELSE MeasureStep("record",
                                     { IF (k - 1) % 3 = 1 THEN config0 ELSE config1 },
                                     r.unit, r.ok) ]
        kept == IF AllOk(reads) THEN 3 * Len(reads) ELSE 3 * Len(reads) - 2
    IN  IF ~ AllOk(programs)
        THEN [ ok |-> FALSE, steps |-> programs ]
        ELSE [ ok |-> AllOk(reads),
               steps |-> programs \o sleep \o SubSeq(unitReads, 1, kept) ]

RECURSIVE IrpMeasureFrom(_, _, _, _)
IrpMeasureAfter(mode, i, count, r, fault) ==
    IF ~ r.ok THEN r
    ELSE LET rest == IrpMeasureFrom(mode, i, count, fault)
         IN  [ ok |-> rest.ok, steps |-> r.steps \o rest.steps ]

\* The loops of collect_metrics from position i on: IRP_EVENTS in turn (MSR,
\* i counted from 1), or (0..len).step_by(2) with i + 1 < len (PCI)
IrpMeasureFrom(mode, i, count, fault) ==
    IF mode = "Msr"
    THEN IF i > Len(IRP_EVENTS) THEN [ ok |-> TRUE, steps |-> << >> ]
         ELSE IrpMeasureAfter(mode, i + 1, count, IrpMsrEventSteps(i, count, fault), fault)
    ELSE IF i >= Len(IRP_EVENTS) THEN [ ok |-> TRUE, steps |-> << >> ]
         ELSE IF ~ (i + 1 < Len(IRP_EVENTS)) THEN IrpMeasureFrom(mode, i + 2, count, fault)
         ELSE IrpMeasureAfter(mode, i + 2, count, IrpPciPairSteps(i, count, fault), fault)

NoMeasurement ==
    [ monitor |-> "none", units |-> {}, ok |-> TRUE, steps |-> << >>, ticks |-> 0 ]

MeasureNew == measurement = NoMeasurement

\* One tick of the IIO exporter: try_collect_programmable_metrics of a new monitor
IioMeasure ==
    /\ measurement.ticks < MaxMeasurements
    /\ \E fault \in IioMeasureFaults :
       \E r \in { IioMeasureFrom(1, fault) } :
          measurement' = [ monitor |-> "Iio", units |-> IioChannels, ok |-> r.ok,
                           steps |-> r.steps, ticks |-> measurement.ticks + 1 ]
    /\ UNCHANGED notMeas

\* One tick of the IRP exporter: collect_metrics of a new monitor, with the
\* units of a Skylake (MSR) or of a Haswell (PCI) part
IrpMeasure ==
    /\ measurement.ticks < MaxMeasurements
    /\ \E arch \in { "Skylake", "Haswell" }, fault \in IrpMeasureFaults :
       \E monitor \in { IrpMonitor_new(arch, IRP_DEVICE_ID * Pow2(16) + IRP_VENDOR_ID) } :
       \E r \in { IrpMeasureFrom(monitor.units[1], IF monitor.units[1] = "Msr" THEN 1 ELSE 0,
                                 Len(monitor.units), fault) } :
          measurement' = [ monitor |-> "Irp" \o monitor.units[1],
                           units |-> 0 .. (Len(monitor.units) - 1), ok |-> r.ok,
                           steps |-> r.steps, ticks |-> measurement.ticks + 1 ]
    /\ UNCHANGED notMeas

NextMeasure == IioMeasure \/ IrpMeasure

\* ------------------------------------------------ PCI address resolution
\* common/pci.rs: Mcfg::find_group_bus over the records of the table, with
\* validate_pci_address asking the device at each bus.

MaxBusCalls == 3

McfgRecord(segment, start_bus, end_bus) ==
    [ pci_segment_group |-> segment, start_bus |-> start_bus, end_bus |-> end_bus ]

\* The tables of the runs: one record; two records listed with the higher
\* buses first; two segments; two overlapping records; a record whose range
\* is empty
McfgRecordTables ==
    { << McfgRecord(0, 0, 3) >>,
      << McfgRecord(0, 2, 3), McfgRecord(0, 0, 1) >>,
      << McfgRecord(0, 0, 1), McfgRecord(1, 0, 1) >>,
      << McfgRecord(0, 0, 2), McfgRecord(0, 1, 3) >>,
      << McfgRecord(0, 3, 1) >> }

\* The word at offset 0 of the function asked for, by <<segment, bus>>; a
\* bus not listed has no config file (PciHandle::new fails)
PciOtherDeviceId == IRP_DEVICE_ID - Pow2(14)
VendorDevice(vendor, device) == device * Pow2(16) + vendor
PciPopulations ==
    { ( <<0, 0>> :> VendorDevice(IRP_VENDOR_ID, IRP_DEVICE_ID) )
        @@ ( <<0, 1>> :> VendorDevice(IRP_VENDOR_ID, PciOtherDeviceId) )
        @@ ( <<0, 2>> :> VendorDevice(IRP_VENDOR_ID, IRP_DEVICE_ID) )
        @@ ( <<1, 1>> :> VendorDevice(IRP_VENDOR_ID, IRP_DEVICE_ID) ),
      ( <<0, 1>> :> VendorDevice(IRP_VENDOR_ID, IRP_DEVICE_ID) )
        @@ ( <<0, 2>> :> VendorDevice(4660, IRP_DEVICE_ID) )
        @@ ( <<0, 3>> :> VendorDevice(IRP_VENDOR_ID, PciOtherDeviceId) ),
      << >> }

\* The PciConfigAddress values asked for: the same device and function on
\* sockets 0 to 2, for either device id
PciConfigQueries ==
    [ socket : 0 .. 2, device : { 5 }, function : { 6 },
      device_id : { IRP_DEVICE_ID, PciOtherDeviceId } ]

\* Mcfg::validate_pci_address
validate_pci_address(population, group, bus_number, device_id) ==
    /\ <<group, bus_number>> \in DOMAIN population
    /\ BitField(population[<<group, bus_number>>], 0, 16) = IRP_VENDOR_ID
    /\ BitField(population[<<group, bus_number>>], 16, 16) = device_id

\* for bus in start_bus..=end_bus { if validate_pci_address(..) { candidates.push(..) } }
RECURSIVE ScanBuses(_, _, _, _, _)
ScanBuses(population, record, bus_number, config_addr, candidates) ==
    IF bus_number > record.end_bus THEN candidates
    ELSE ScanBuses(population, record, bus_number + 1, config_addr,
            IF validate_pci_address(population, record.pci_segment_group, bus_number,
                                    config_addr.device_id)
            THEN Append(candidates,
                        [ group_number |-> record.pci_segment_group, bus |-> bus_number,
                          device |-> config_addr.device, function |-> config_addr.function ])
            ELSE candidates)

\* for record in &self.records { ... }
RECURSIVE ScanRecords(_, _, _, _, _)
ScanRecords(population, records, i, config_addr, candidates) ==
    IF i > Len(records) THEN candidates
    ELSE ScanRecords(population, records, i + 1, config_addr,
            ScanBuses(population, records[i], records[i].start_bus, config_addr, candidates))

\* find_group_bus with a cache that looks the address up by its socket only
Mcfg_find_group_bus_by_socket(self, population, config_addr) ==
    IF \E k \in DOMAIN self.group_bus_map : k.socket = config_addr.socket
    THEN [ ok |-> TRUE, cached |-> TRUE, group_bus_map |-> self.group_bus_map,
           addr |-> self.group_bus_map[CHOOSE k \in DOMAIN self.group_bus_map :
                                          k.socket = config_addr.socket] ]
    ELSE LET candidates == ScanRecords(population, self.records, 1, config_addr, << >>)
         IN  IF config_addr.socket < Len(candidates)
             THEN [ ok |-> TRUE, cached |-> FALSE,
                    group_bus_map |-> ( config_addr :> candidates[config_addr.socket + 1] )
                                      @@ self.group_bus_map,
                    addr |-> candidates[config_addr.socket + 1] ]
             ELSE [ ok |-> FALSE, cached |-> FALSE, group_bus_map |-> self.group_bus_map,
                    addr |-> << >> ]

\* Mcfg::find_group_bus: the cached address of config_addr, or the scan, whose
\* candidates[socket] is cached and returned, or the error
Mcfg_find_group_bus(self, population, config_addr) ==
    IF config_addr \in DOMAIN self.group_bus_map
    THEN [ ok |-> TRUE, cached |-> TRUE, group_bus_map |-> self.group_bus_map,
           addr |-> self.group_bus_map[config_addr] ]
    ELSE LET candidates == ScanRecords(population, self.records, 1, config_addr, << >>)
         IN  IF config_addr.socket < Len(candidates)
             THEN [ ok |-> TRUE, cached |-> FALSE,
                    group_bus_map |-> ( config_addr :> candidates[config_addr.socket + 1] )
                                      @@ self.group_bus_map,
                    addr |-> candidates[config_addr.socket + 1] ]
             ELSE [ ok |-> FALSE, cached |-> FALSE, group_bus_map |-> self.group_bus_map,
                    addr |-> << >> ]

NoBusCall == [ op |-> "none", config_addr |-> << >>, ok |-> FALSE, cached |-> FALSE,
               addr |-> << >> ]

BusStart(records, population) ==
    [ self |-> [ records |-> records, group_bus_map |-> << >> ],
      population |-> population, call |-> NoBusCall, calls |-> 0 ]

\* Mcfg::new with the records of the table: an empty cache
BusNew ==
    \E records \in McfgRecordTables, population \in PciPopulations :
       busScan = BusStart(records, population)

\* A call of Mcfg::instance().find_group_bus(config_addr)
McfgFindGroupBus ==
    /\ busScan.calls < MaxBusCalls
    /\ \E config_addr \in PciConfigQueries :
       \E r \in { Mcfg_find_group_bus(busScan.self, busScan.population, config_addr) } :
          busScan' = [busScan EXCEPT
                        !.self.group_bus_map = r.group_bus_map,
                        !.call = [ op |-> "find_group_bus", config_addr |-> config_addr,
                                   ok |-> r.ok, cached |-> r.cached, addr |-> r.addr ],
                        !.calls = @ + 1]
    /\ UNCHANGED notBus

NextBus == McfgFindGroupBus

\* ------------------------------------------------ specifications

\* The parts of the agent a specification does not run stay as constructed.
IdleCha == now = 0 /\ InitChaFields
IdleDelta == deltaPrev = 0 /\ deltaCur = 0 /\ deltaOut = DeltasOf(0, 0)
IdleRm ==
    /\ rmMon = RdtMonitor_build(<< >>)
    /\ rmMsr = RdtMsrWith(<< >>)
    /\ rmPhase = "idle"
    /\ rmCall = NoRmCall
    /\ rmHist = [ ops |-> 0, live |-> {}, freed |-> {} ]

IdleHw == HwStart(HwCpus, HwCpus, HwCpus)

IdleMcfg == mcfg = McfgStart([ length |-> McfgHeaderSize, size |-> McfgHeaderSize ])

IdleReg ==
    regLayout = RegStart("ChaBoxControl", ChaBoxControl_from_msr_value({}), {})

IdleMeas == measurement = NoMeasurement

IdleBus == busScan = BusStart(<< McfgRecord(0, 0, 3) >>, << >>)

IdleCalc ==
    calc = CalcStart([ occupancy |-> 0, insert |-> 0, clockticks |-> 0, duration |-> 0 ],
                     [ occupancy |-> 0, insert |-> 0, clockticks |-> 0, duration |-> 0 ])

IdleIrp == irp = IrpStart(CpuidEax(0, 5, 6, 5, 4), IRP_DEVICE_ID * Pow2(16) + IRP_VENDOR_ID)

IdleAg == agent = AgentStart([ flags |-> {}, fails |-> {} ])

IdleLoop ==
    /\ loopExporters = {}
    /\ loopTasks = << >>
    /\ loopGauges = [ e \in ExporterNames |-> 0 ]
    /\ loopCall = NoLoopCall
    /\ loopHist = [ ticks |-> 0, failed |-> {} ]

InitCha == ChaNew /\ IdleDelta /\ IioNew /\ RdtNew /\ IdleLoop /\ IdleRm /\ IdleHw /\ IdleAg /\ IdleMcfg /\ IdleIrp /\ IdleReg /\ IdleCalc /\ IdleMeas /\ IdleBus
InitSched == SchedNew /\ IdleDelta /\ IioNew /\ RdtNew /\ IdleLoop /\ IdleRm /\ IdleHw /\ IdleAg /\ IdleMcfg /\ IdleIrp /\ IdleReg /\ IdleCalc /\ IdleMeas /\ IdleBus
InitDelta == DeltaFirst /\ IdleCha /\ IioNew /\ RdtNew /\ IdleLoop /\ IdleRm /\ IdleHw /\ IdleAg /\ IdleMcfg /\ IdleIrp /\ IdleReg /\ IdleCalc /\ IdleMeas /\ IdleBus
InitIio == IioNew /\ IdleCha /\ IdleDelta /\ RdtNew /\ IdleLoop /\ IdleRm /\ IdleHw /\ IdleAg /\ IdleMcfg /\ IdleIrp /\ IdleReg /\ IdleCalc /\ IdleMeas /\ IdleBus
InitRdt == RdtNew /\ IdleCha /\ IdleDelta /\ IioNew /\ IdleLoop /\ IdleRm /\ IdleHw /\ IdleAg /\ IdleMcfg /\ IdleIrp /\ IdleReg /\ IdleCalc /\ IdleMeas /\ IdleBus
InitLoop == LoopNew /\ IdleCha /\ IdleDelta /\ IioNew /\ RdtNew /\ IdleRm /\ IdleHw /\ IdleAg /\ IdleMcfg /\ IdleIrp /\ IdleReg /\ IdleCalc /\ IdleMeas /\ IdleBus
InitPool == PoolNew /\ IdleCha /\ IdleDelta /\ IioNew /\ RdtNew /\ IdleLoop /\ IdleHw /\ IdleAg /\ IdleMcfg /\ IdleIrp /\ IdleReg /\ IdleCalc /\ IdleMeas /\ IdleBus
InitLife == LifeNew /\ IdleCha /\ IdleDelta /\ IioNew /\ RdtNew /\ IdleLoop /\ IdleHw /\ IdleAg /\ IdleMcfg /\ IdleIrp /\ IdleReg /\ IdleCalc /\ IdleMeas /\ IdleBus
InitMsr == HwNew /\ IdleCha /\ IdleDelta /\ IioNew /\ RdtNew /\ IdleLoop /\ IdleRm /\ IdleAg /\ IdleMcfg /\ IdleIrp /\ IdleReg /\ IdleCalc /\ IdleMeas /\ IdleBus
InitPci == PciNew /\ IdleCha /\ IdleDelta /\ IioNew /\ RdtNew /\ IdleLoop /\ IdleRm /\ IdleAg /\ IdleMcfg /\ IdleIrp /\ IdleReg /\ IdleCalc /\ IdleMeas /\ IdleBus
InitAgent == AgentMain /\ IdleCha /\ IdleDelta /\ IioNew /\ RdtNew /\ IdleLoop /\ IdleRm /\ IdleHw /\ IdleMcfg /\ IdleIrp /\ IdleReg /\ IdleCalc /\ IdleMeas /\ IdleBus
InitMcfg == McfgBoot /\ IdleCha /\ IdleDelta /\ IioNew /\ RdtNew /\ IdleLoop /\ IdleRm /\ IdleHw /\ IdleAg /\ IdleIrp /\ IdleReg /\ IdleCalc /\ IdleMeas /\ IdleBus
InitIrp == IrpBoot /\ IdleCha /\ IdleDelta /\ IioNew /\ RdtNew /\ IdleLoop /\ IdleRm /\ IdleHw /\ IdleAg /\ IdleMcfg /\ IdleReg /\ IdleCalc /\ IdleMeas /\ IdleBus
InitReg == RegNew /\ IdleCha /\ IdleDelta /\ IioNew /\ RdtNew /\ IdleLoop /\ IdleRm /\ IdleHw /\ IdleAg /\ IdleMcfg /\ IdleIrp /\ IdleCalc /\ IdleMeas /\ IdleBus
InitCalc == CalcNew /\ IdleCha /\ IdleDelta /\ IioNew /\ RdtNew /\ IdleLoop /\ IdleRm /\ IdleHw /\ IdleAg /\ IdleMcfg /\ IdleIrp /\ IdleReg /\ IdleMeas /\ IdleBus
InitBus == BusNew /\ IdleCha /\ IdleDelta /\ IioNew /\ RdtNew /\ IdleLoop /\ IdleRm /\ IdleHw /\ IdleAg /\ IdleMcfg /\ IdleIrp /\ IdleReg /\ IdleMeas /\ IdleCalc
InitMeasure == MeasureNew /\ IdleCha /\ IdleDelta /\ IioNew /\ RdtNew /\ IdleLoop /\ IdleRm /\ IdleHw /\ IdleAg /\ IdleMcfg /\ IdleIrp /\ IdleReg /\ IdleCalc /\ IdleBus

\* The CHA monitor over a short run, with MSR errors.
SpecCha == InitCha /\ [][NextCha]_vars

\* The CHA monitor over the 44-second run.
SpecChaRun == InitCha /\ [][NextChaRun]_vars

\* The event scheduler on its own.
SpecSched == InitSched /\ [][NextSched]_vars

\* The delta arithmetic of the monitors.
SpecDelta == InitDelta /\ [][NextDelta]_vars

\* The IIO exporter, with MSR errors.
SpecIio == InitIio /\ [][NextIio]_vars

\* The RDT exporter, with MSR errors.
SpecRdt == InitRdt /\ [][NextRdt]_vars

\* The RMID pool of a monitor.
SpecPool == InitPool /\ [][NextPool]_vars

\* One RdtMonitor from new to Drop.
SpecLife == InitLife /\ [][NextLife]_vars

\* Threads calling Msr::read and Msr::write.
SpecMsr == InitMsr /\ [][NextMsr]_vars
SpecPci == InitPci /\ [][NextPci]_vars
SpecAgent == InitAgent /\ [][NextAgent]_vars
SpecMcfg == InitMcfg /\ [][NextMcfg]_vars
SpecIrp == InitIrp /\ [][NextIrp]_vars
SpecReg == InitReg /\ [][NextReg]_vars
SpecCalc == InitCalc /\ [][NextCalc]_vars
SpecBus == InitBus /\ [][NextBus]_vars
SpecMeasure == InitMeasure /\ [][NextMeasure]_vars
SpecAgentLive == InitAgent /\ [][NextAgent]_vars /\ WF_vars(NextAgent)

\* The RDT exporter over two refresh periods.
SpecRdtRun == InitRdt /\ [][NextRdtRun]_vars

\* The collection loop and its tasks.
SpecLoop == InitLoop /\ [][NextLoop]_vars

\* ---------------------------------------------------------- claims

\* A box is programmed with a group when the group's programming sequence has
\* run on it to its end: every register the sequence writes holds the value the
\* sequence writes last to it.
BoxProgrammedWith(box, group) == program_event_group(box, group, 0).box = box

CurrentGroup == GroupAt(scheduler, scheduler.current_index)

\* C1: whenever collect advances the scheduler index, it leaves every CHA box
\* programmed with the scheduler's new current group and the previous-counter
\* map empty, also when an MSR write of the programming loop fails.
C1_AtomicReprogram ==
    [][ scheduler'.current_index # scheduler.current_index =>
          /\ \A b \in Boxes : BoxProgrammedWith(chaMsr'[b], CurrentGroup')
          /\ prev_counters' = << >> ]_vars

\* C2: every rotation performed by collect issues the programming sequence of
\* the new group to each CHA box 0..cha_count-1 exactly once, and leaves the
\* previous-counter map empty.
C2_RotationProgramsEveryBox ==
    (chaCall.op = "collect" /\ scheduler.current_index # chaCall.group) =>
        /\ chaCall.issued = [ i \in 1 .. ChaCount |-> [ cha_id |-> i - 1, ok |-> TRUE ] ]
        /\ prev_counters = << >>

\* C3: with n >= 1 groups and a start at index 0, after k calls of rotate() the
\* index is k mod n and below n, and a rotate() leaves last_rotation at the
\* current time.
C3_RotateIndex ==
    Len(scheduler.groups) >= 1 =>
        /\ scheduler.current_index = chaHist.rotations % Len(scheduler.groups)
        /\ scheduler.current_index < Len(scheduler.groups)
        /\ chaCall.op = "rotate" => scheduler.last_rotation = now

\* C3 witness: two groups, three rotate() calls (0, 1, 0, 1), the last at a
\* time after the construction.
C3_Witness ==
    /\ Len(scheduler.groups) = 2
    /\ chaHist.rotations = 3
    /\ scheduler.current_index = 1
    /\ chaCall.op = "rotate"
    /\ now = 2

C5_DeltaModWidth ==
    /\ deltaOut.imc = WrapDelta(deltaCur, deltaPrev, WidthBits)
    /\ deltaOut.cha = WrapDelta(deltaCur, deltaPrev, WidthBits)
    /\ deltaOut.iio = WrapDelta(deltaCur, deltaPrev, WidthBits)
    /\ deltaOut.rdt = WrapDelta(deltaCur, deltaPrev, WidthBits)

\* C6: when the collection of a monitor fails in a tick (here: update_socket_metrics
\* of the RDT monitor returns an error for some socket), no gauge of that
\* exporter is written in that tick.
C6_FailedCollectionWritesNoGauge ==
    rdtCall.failed # {} =>
        \A k \in RdtGaugeKeys : rdtGauges[k].tick # rdtHist.ticks

\* C7: a collection that fails (an error or a panic of the task) changes no
\* gauge of another exporter, and every tick of the loop spawns a collection
\* for every exporter of the collector, those whose last collection failed
\* included.
C7_FailureIsContained ==
    [][ /\ (loopCall'.op = "collect" /\ loopCall'.outcome # "ok") =>
              \A o \in ExporterNames \ {loopCall'.exporter} :
                  loopGauges'[o] = loopGauges[o]
        /\ loopCall'.op = "tick" =>
              /\ { loopTasks'[i].exporter : i \in 1 .. Len(loopTasks') } = loopExporters
              /\ \A i \in 1 .. Len(loopTasks') : loopTasks'[i].state = "running"
      ]_vars

\* C7 witness: the second tick has just spawned its tasks; the collection of
\* one exporter failed in the first tick and left its gauges unset, another
\* exporter's gauges were set in the first tick, and both have a task again.
C7_Witness ==
    /\ loopCall.op = "tick"
    /\ loopHist.ticks = 2
    /\ \E e \in loopHist.failed : \E o \in loopExporters \ loopHist.failed :
          /\ loopGauges[e] = 0
          /\ loopGauges[o] = 1
          /\ \E i \in 1 .. Len(loopTasks) :
                loopTasks[i].exporter = e /\ loopTasks[i].state = "running"

\* C8: over the whole run of the IIO exporter the "programmable counters not
\* available" warning is emitted at most once, however many ticks fail to
\* program the counters.
C8_WarnOnce == iioHist.warnings <= 1

C10_PcieBandwidthFromSecondTick ==
    (iioCall.ok /\ iioHist.successes >= 2) => PcieMetrics \subseteq iioCall.metrics

\* C11: allocate_rmid returns an id of 1 .. RMID_MAX - 1, never 0, that is
\* neither marked used nor held by a live allocation at that moment, and marks
\* it; free_rmid of an id of the pool leaves it unmarked, so that a later
\* allocate_rmid can return it.
C11_AllocateFreshId ==
    [][ /\ (rmCall'.op = "allocate" /\ rmCall'.ok) =>
              /\ rmCall'.rmid \in 1 .. (RMID_MAX - 1)
              /\ rmCall'.rmid \notin rmMon.rmid_used
              /\ rmCall'.rmid \notin rmHist.live
              /\ rmMon'.rmid_used = rmMon.rmid_used \cup {rmCall'.rmid}
        /\ (rmCall'.op = "free" /\ rmCall'.rmid \in 1 .. (RMID_MAX - 1)) =>
              /\ rmCall'.rmid \notin rmMon'.rmid_used
              /\ allocate_rmid(rmMon').ok
              /\ allocate_rmid(rmMon').rmid <= rmCall'.rmid ]_vars

\* An allocation that returned an id released before, while other ids are live.
C11_Witness ==
    /\ rmPhase = "pool"
    /\ rmCall.op = "allocate"
    /\ rmCall.ok
    /\ rmCall.rmid \in rmHist.freed
    /\ rmHist.live \ {rmCall.rmid} # {}

\* C12: with the RMID_MAX - 1 ids of the pool in use, allocate_rmid returns an
\* error and leaves the pool as it was; initialize on more than RMID_MAX - 1
\* cores returns an error.
C12_ExhaustedPoolFails ==
    [][ /\ (rmCall'.op = "allocate" /\ rmMon.rmid_used = 1 .. (RMID_MAX - 1)) =>
              /\ ~rmCall'.ok
              /\ rmMon' = rmMon
        /\ (rmCall'.op = "initialize" /\ Len(rmMon.config.cores) > RMID_MAX - 1) =>
              ~rmCall'.ok ]_vars

\* initialize on RMID_MAX cores ended at the allocation for the last core,
\* every id of the pool in use.
C12_Witness ==
    /\ rmCall.op = "initialize"
    /\ ~rmCall.ok
    /\ Len(rmMon.config.cores) = RMID_MAX
    /\ rmMon.rmid_used = 1 .. (RMID_MAX - 1)
    /\ rmMon.core_to_rmid[RMID_MAX - 2] = RMID_MAX - 1

\* The cores whose IA32_PQR_ASSOC the call traced in msr wrote with success.
Reasserted(msr) ==
    { o.core : o \in { x \in msr.issued : x.reg = "PQR_ASSOC_write" /\ x.ok } }

\* C13: after Drop of an RdtMonitor no id of its pool is marked used, whether
\* initialize had returned Ok or an error at any core.
C13_DropReleasesEveryRmid == rmPhase = "dropped" => rmMon.rmid_used = {}

\* C14: assign_rmid_to_core changes only the low 10 bits of the core's
\* IA32_PQR_ASSOC: they become the RMID, every higher bit keeps the value read
\* before the write, and no other core's register changes.
C14_AssignKeepsCos ==
    [][ rmCall'.op \in { "initialize", "refresh_rmids" } =>
          \A c \in MachineCpus :
             IF c \in Reasserted(rmMsr')
             THEN /\ rmMsr'.pqr_assoc[c][1] = rmMsr.pqr_assoc[c][1]
                  /\ rmMsr'.pqr_assoc[c][2] \div 1024 = rmMsr.pqr_assoc[c][2] \div 1024
                  /\ rmMsr'.pqr_assoc[c][2] % 1024 = rmMon'.core_to_rmid[c]
                  /\ rmMon'.core_to_rmid[c] \in rmMon'.rmid_used
             ELSE rmMsr'.pqr_assoc[c] = rmMsr.pqr_assoc[c] ]_vars

\* initialize assigned a new RMID to a core whose register held a COS, a stale
\* RMID and a bit above the RMID field.
C14_Witness ==
    /\ rmCall.op = "initialize"
    /\ rmCall.ok
    /\ \E c \in Reasserted(rmMsr) :
          /\ rmMsr.pqr_assoc[c][1] = 5
          /\ rmMsr.pqr_assoc[c][2] = 2048 + rmMon.core_to_rmid[c]
          /\ rmMon.core_to_rmid[c] > 1

\* C15: every write of IA32_QM_EVTSEL and every read of IA32_QM_CTR that
\* samples a monitored core is issued on a CPU of that core's socket.
C15_SampledOnOwnSocket ==
    \A o \in rmMsr.issued :
       o.reg \in { "QM_EVTSEL_write", "QM_CTR_read" } =>
          read_socket_id(o.cpu) = read_socket_id(o.core)

\* An update that sampled cores of two sockets, one of them through another
\* CPU than itself.
C15_Witness ==
    /\ rmCall.op = "update"
    /\ \E o1, o2 \in rmMsr.issued :
          /\ o1.reg = "QM_CTR_read"
          /\ o2.reg = "QM_CTR_read"
          /\ read_socket_id(o1.core) # read_socket_id(o2.core)
          /\ o1.cpu # o1.core
          /\ o2.cpu > o1.cpu

\* C16: the exporter re-asserts the RMID association of every monitored core
\* on every RMID_REFRESH_PERIOD-th tick, and of no core on any other tick.
C16_RefreshEvery30thTick ==
    [][ rdtHist'.ticks = rdtHist.ticks + 1 =>
          Reasserted(rdtMsr') =
             IF rdtHist'.ticks % RMID_REFRESH_PERIOD = 0
             THEN SeqSet(rdtMonitor.config.cores)
             ELSE {} ]_vars

\* C17: under every interleaving of get_handle calls at most one MsrHandle is
\* created and stored for each CPU, the write lock is taken only by a caller
\* whose read-locked lookup missed, and every caller that has a handle for a
\* CPU has the handle the map stores for that CPU.
C17_OneHandlePerCpu ==
    /\ \A c \in HwCpus :
          /\ Len(hwFiles[c]) <= 1
          /\ hwHandles[c] = Len(hwFiles[c])
    /\ \A t \in HwThreadIds :
          /\ hwThreads[t].pc \in { "g_write", "g_insert" } => hwThreads[t].missed
          /\ hwLock.writer = t => hwThreads[t].missed
          /\ hwThreads[t].handle # 0 =>
                hwThreads[t].handle = hwHandles[hwThreads[t].key]
    /\ \A t, u \in HwThreadIds :
          ( /\ hwThreads[t].handle # 0
            /\ hwThreads[u].handle # 0
            /\ hwThreads[t].key = hwThreads[u].key )
          => hwThreads[t].handle = hwThreads[u].handle

\* Two callers missed the same CPU in the read-locked lookup, and both hold
\* the one handle of that CPU.
C17_Witness ==
    \E t, u \in HwThreadIds :
        /\ t # u
        /\ hwThreads[t].missed
        /\ hwThreads[u].missed
        /\ hwThreads[t].key = hwThreads[u].key
        /\ hwThreads[t].handle # 0
        /\ hwThreads[u].handle = hwThreads[t].handle
        /\ Len(hwFiles[hwThreads[t].key]) = 1

\* C18: under concurrent get_or_create_handle calls for one logical address
\* at most one PciHandle is created and inserted, and all callers share it.
C18_OnePciHandlePerAddress ==
    /\ \A a \in DOMAIN hwFiles : Len(hwFiles[a]) <= 1
    /\ \A t, u \in HwThreadIds :
          ( /\ hwThreads[t].pc = "p_have"
            /\ hwThreads[u].pc = "p_have"
            /\ hwThreads[t].key = hwThreads[u].key )
          => hwThreads[t].handle = hwThreads[u].handle

\* C19: operations on one MsrHandle do not interleave: at most one thread is
\* between its seek and the end of its transfer on a handle, and the transfer
\* is made at the register the operation asked for.
C19_OperationsDoNotInterleave ==
    /\ \A t \in HwThreadIds :
          hwThreads[t].pc \in { "h_seek", "h_io", "h_exit" } =>
             HandleOf(hwFiles, hwThreads[t]).holder = t
    /\ \A t \in HwThreadIds :
          hwThreads[t].pc = "h_io" =>
             HandleOf(hwFiles, hwThreads[t]).offset = hwThreads[t].addr
    /\ \A t, u \in HwThreadIds :
          ( /\ t # u
            /\ hwThreads[t].pc \in { "h_seek", "h_io", "h_exit" }
            /\ hwThreads[u].pc \in { "h_seek", "h_io", "h_exit" } )
          => <<hwThreads[t].key, hwThreads[t].handle>>
                # <<hwThreads[u].key, hwThreads[u].handle>>

\* One thread is about to transfer while another, which asked the same handle
\* for a different register, waits for the file.
C19_Witness ==
    \E t, u \in HwThreadIds :
        /\ t # u
        /\ hwThreads[t].pc = "h_io"
        /\ hwThreads[u].pc = "h_lock"
        /\ hwThreads[u].key = hwThreads[t].key
        /\ hwThreads[u].handle = hwThreads[t].handle
        /\ hwThreads[u].addr # hwThreads[t].addr

\* C20: the device access of MsrHandle::read and ::write runs while the thread
\* is pinned to the handle's CPU, and when the call returns, on every path,
\* the thread's affinity mask is the mask it had before the call.
C20_PinnedThenRestored ==
    [][ \A t \in HwThreadIds :
          /\ hwThreads[t].pc \in { "h_seek", "h_io" } =>
                hwMask[t] = { HandleOf(hwFiles, hwThreads[t]).key }
          /\ ( hwThreads[t].pc = "h_guard" /\ hwThreads'[t].pc = "idle" ) =>
                hwMask'[t] = hwMask[t]
          /\ ( hwThreads[t].pc = "h_exit" /\ hwThreads'[t].pc = "idle" ) =>
                hwMask'[t] = hwThreads[t].before ]_vars

\* A call whose seek or transfer failed is about to return, from a thread
\* that entered the call with a mask other than the handle's CPU.
C20_Witness ==
    \E t \in HwThreadIds :
        /\ hwThreads[t].pc = "h_exit"
        /\ hwThreads[t].result = "err"
        /\ hwThreads[t].before # { hwThreads[t].key }
        /\ hwMask[t] = { hwThreads[t].key }

\* C21: a tick that comes after work longer than the period starts at once,
\* and the ticks missed meanwhile are not queued: when a tick starts, the next
\* deadline of the interval lies after the present time, so no catch-up tick
\* follows without a wait.
C21_NoCatchUpBurst ==
    [][ agent'.ticks > agent.ticks =>
          /\ agent.deadline <= agent.clock => agent'.clock = agent.clock
          /\ agent'.deadline > agent'.clock ]_vars

\* C22: after the cancellation signal the collection loop starts no further
\* tick, the tasks in flight end, the loop terminates and the process exits
\* (its monitors dropped).
C22_CancelEndsLoop ==
    /\ [][ agent.cancelled => agent'.ticks = agent.ticks ]_vars
    /\ ( agent.cancelled ~> ( agent.tasks = {} /\ agent.phase = "exited" ) )

C24_McfgLoad ==
    ( /\ mcfg.calls > 0
      /\ (mcfg.file.length - 44) % 16 = 0 )
    => IF mcfg.file.size = mcfg.file.length
       THEN /\ mcfg.call.outcome = "ok"
            /\ mcfg.call.records = (mcfg.file.length - 44) \div 16
       ELSE /\ mcfg.call.outcome = "err"
            /\ mcfg.call.kind = "ParseError"
            /\ mcfg.call.records = 0

\* C25: a family 6, model 0x3F processor is detected as Haswell, and the IRP
\* monitor created for it uses the PCI backend.
C25_Model3FIsHaswellPci ==
    ( /\ irp.arch # "uninit"
      /\ BitField(irp.eax, 8, 4) = 6
      /\ BitField(irp.eax, 16, 4) * 16 + BitField(irp.eax, 4, 4) = 63 ) =>
        /\ irp.arch = "Haswell"
        /\ ( irp.phase # "boot" /\ irp.monitor.ok ) => irp.monitor.units = << "Pci" >>

\* C26: a PCI-mode collect_metrics that returns Ok has programmed and sampled
\* all seven events of IRP_EVENTS, two events and four control words per
\* programming step.
C26_PciProgramsEveryEvent ==
    ( irp.call.mode = "Pci" /\ irp.call.outcome = "ok" ) =>
        /\ irp.call.sampled = IrpEventNames
        /\ { irp.call.programmed[i][j] :
               i \in DOMAIN irp.call.programmed, j \in 1 .. 2 } = IrpEventNames
        /\ \A i \in DOMAIN irp.call.programmed :
             Len(irp.call.programmed[i]) = 2 /\ Len(irp.call.controls[i]) = 4

\* C27: a collection that returns Ok yields IRPLatency, IRPAnyOccupancy,
\* IRPAllBandwidth, IRPPCIeReadBandwidth, IRPRFOBandwidth and IRPFrequency,
\* each computed from the counters the same collection sampled.
C27_TickYieldsSixMetrics ==
    irp.call.outcome = "ok" =>
        LET er == irp.call.event_results
            m == irp.call.metrics
        IN  /\ { "IRPLatency", "IRPAnyOccupancy", "IRPAllBandwidth",
                 "IRPPCIeReadBandwidth", "IRPRFOBandwidth", "IRPFrequency" } \subseteq DOMAIN m
            /\ { "All", "Clockticks", "PCIeRead", "RFO" } \subseteq DOMAIN er
            /\ m["IRPFrequency"] = Ratio(er["Clockticks"][2], 1)
            /\ m["IRPAnyOccupancy"] = Ratio(er["All"][1], er["Clockticks"][2])
            /\ m["IRPLatency"] = IF er["All"][2] > 0
                                 THEN Ratio(er["All"][1] * er["Clockticks"][2], er["All"][2])
                                 ELSE Ratio(0, 1)
            /\ m["IRPAllBandwidth"] = Ratio(er["All"][2] * CACHELINE_SIZE, 1)
            /\ m["IRPPCIeReadBandwidth"] = Ratio(er["PCIeRead"][2] * CACHELINE_SIZE, 1)
            /\ m["IRPRFOBandwidth"] = Ratio(er["RFO"][2] * CACHELINE_SIZE, 1)

\* The bits of a layout's fields, as from_msr_value reads them and the
\* register format tables give them; every other bit is reserved.
DefinedBits(layout) ==
    CASE layout = "ChaBoxControl" -> { 0, 1, 2, 8 }
      [] layout = "ChaCounterControl" -> (0 .. 18) \cup (22 .. 31)
      [] layout = "ChaFilter1" -> 0 .. 23
      [] layout = "IioCounterControl" -> (0 .. 15) \cup (17 .. 20) \cup (22 .. 46)

\* Every numeric field of the value fits the bit-width of its field
FieldsFit(layout, s) ==
    CASE layout = "ChaBoxControl" -> TRUE
      [] layout = "ChaCounterControl" ->
           /\ s.event_select < Pow2(8) /\ s.unit_mask < Pow2(8)
           /\ s.queue_occupancy_select < Pow2(2) /\ s.threshold < Pow2(6)
      [] layout = "ChaFilter1" -> s.tid < Pow2(17) /\ s.state < Pow2(7)
      [] layout = "IioCounterControl" ->
           /\ s.event_select < Pow2(8) /\ s.unit_mask < Pow2(8)
           /\ s.threshold < Pow2(12) /\ s.channel_mask < Pow2(8) /\ s.fc_mask < Pow2(3)

\* C28: a register struct value that passes validate is decoded from its own
\* encoding with every field unchanged.
C28_DecodeOfEncode ==
    ( regLayout.valid = "ok" /\ regLayout.decoded # NoStruct ) =>
        regLayout.decoded = regLayout.s

\* C29: the encoding of what a 64-bit word decodes to is the word with the
\* bits outside the layout's fields cleared.
C29_EncodeOfDecode ==
    regLayout.reencoded # NoWord =>
        regLayout.reencoded = regLayout.w \cap DefinedBits(regLayout.layout)

\* C30: validate rejects every value with a numeric field wider than its
\* field, so the encoding of a value it accepts sets no bit outside the
\* layout's fields (but for the unfreeze bit 16 the box control derives).
C30_ValidateRejectsWideFields ==
    regLayout.valid = "ok" =>
        /\ FieldsFit(regLayout.layout, regLayout.s)
        /\ regLayout.encoded # NoWord =>
             regLayout.encoded \subseteq
                 ( DefinedBits(regLayout.layout)
                     \cup ( IF regLayout.layout = "ChaBoxControl" THEN { 16 } ELSE {} ) )

\* C31: the CHA calculator returns 0 for bandwidth at elapsed 0 and at 0
\* inserts, for the hit rate of 0 hits and 0 misses, for the occupancy ratio
\* at 0 clockticks, and for the latency at 0 inserts or 0 clockticks.
C31_ZeroDenominatorGivesZero ==
    /\ ( calc.call.op = "bandwidth" /\ ( calc.hit.duration = 0 \/ calc.hit.insert = 0 ) ) =>
           FIsZero(calc.call.value)
    /\ ( calc.call.op = "hit_rate" /\ calc.hit.insert = 0 /\ calc.miss.insert = 0 ) =>
           FIsZero(calc.call.value)
    /\ ( calc.call.op = "occupancy" /\ calc.hit.clockticks = 0 ) => FIsZero(calc.call.value)
    /\ ( calc.call.op = "latency" /\ ( calc.hit.insert = 0 \/ calc.hit.clockticks = 0 ) ) =>
           FIsZero(calc.call.value)

C31_Witness ==
    /\ calc.call.op = "latency"
    /\ calc.hit.occupancy > 0 /\ calc.hit.insert = 0 /\ calc.hit.clockticks > 0
    /\ calc.hit.duration > 0
    /\ FIsZero(calc.call.value)

\* C32: no published value comes from a division by zero: every IRP gauge is
\* finite, and a collection that counted zero clockticks publishes an
\* occupancy of 0.
C32_NoDivisionByZeroPublished ==
    /\ \A m \in IrpMetric : FIsFinite(irp.gauges[m])
    /\ ( /\ irp.call.outcome = "ok"
         /\ irp.call.event_results["Clockticks"][2] = 0 ) =>
           FIsZero(irp.gauges["IRPAnyOccupancy"])

\* Whether a CHA box is frozen after the first k writes of a programming
\* sequence: the freeze field ChaBoxControl reads from the last word written
\* to the box control (the box runs before the sequence).
ChaFrozenAfter(ws, k) ==
    LET ctl == { i \in 1 .. k : ws[i].reg = "box_ctl" }
    IN  /\ ctl # {}
        /\ \E last \in ctl :
             /\ \A i \in ctl : i <= last
             /\ ChaBoxControl_from_msr_value(BitsOf(ws[last].value, 31)).freeze

\* C33: the first write of a CHA programming sequence freezes the box, every
\* filter and counter-control write finds it frozen, and only the last write
\* unfreezes it.
C33_FrozenWhileProgrammed ==
    chaCall.issued # << >> =>
        LET ws == ProgramWrites(GroupAt(scheduler, scheduler.current_index))
        IN  /\ ws[1].reg = "box_ctl"
            /\ \A k \in 1 .. (Len(ws) - 1) : ChaFrozenAfter(ws, k)
            /\ ws[Len(ws)].reg = "box_ctl"
            /\ ~ ChaFrozenAfter(ws, Len(ws))

\* C34: the counters whose deltas a collect stores were written, in every
\* box, with the event codes of the collected group and the enable bit, and
\* the filters hold that group's opcode and state.
C34_SampleFromProgrammedGroup ==
    [][ ( chaCall'.op = "collect" /\ chaCall'.ok
          /\ HasGroup(scheduler, scheduler.current_index) ) =>
          LET group == GroupAt(scheduler, scheduler.current_index)
          IN  \A b \in Boxes :
                /\ \A i \in 1 .. 3 :
                     chaMsr[b].ctl[i] = event_select(group.counter_configs[i][1],
                                                     group.counter_configs[i][2])
                /\ chaMsr[b].filter0 = group.config.opc0
                /\ chaMsr[b].filter1 = group.config.state * Pow2(17) ]_vars

\* C38: a ChaMonitor::collect that returns an error leaves the scheduler
\* index, the previous-counter map and the event data as they were.
C38_FailedCollectChangesNothing ==
    [][ ( chaCall'.op = "collect" /\ ~ chaCall'.ok ) =>
          /\ scheduler'.current_index = scheduler.current_index
          /\ prev_counters' = prev_counters
          /\ event_data' = event_data ]_vars

\* C36: the word the RDT monitor writes to the event-select register for
\* (rmid, event_id) is (rmid << 32) | event_id, and QmEventSelect encodes the
\* same (rmid, event_id) to that same word.
C36_EventSelectWordsAgree ==
    \A c \in DOMAIN rdtMsr.qm_evtsel :
        LET written == rdtMsr.qm_evtsel[c]
        IN  written[2] # 0 =>
              /\ QmEvtselWord(written)
                   = { b + 32 : b \in BitsOf(written[1], 31) } \cup BitsOf(written[2], 31)
              /\ QmEventSelect_to_msr_value([ rmid |-> written[1], event_id |-> written[2] ])
                   = QmEvtselWord(written)

\* C39: IioCounterUnit::program never returns with the unit frozen: after
\* every return the freeze bit (bit 8) of the unit control last written is
\* clear.
C39_ProgramLeavesUnitRunning ==
    \A u \in IioChannels : (iioUnits[u].box_ctl \div Pow2(8)) % 2 = 0

\* C35: in an IIO or IRP collection every counter read, and every value
\* recorded, of a configuration comes after the programming of that
\* configuration completed on every unit (with no reprogramming of the unit
\* since) and after the measurement sleep that followed it; nothing is
\* recorded for a configuration whose programming failed.
C35_ProgrammedBeforeSampled ==
    LET s == measurement.steps
        Programmed(k, configs, u) ==
            \E j \in 1 .. (k - 1) :
               /\ s[j].op = "program" /\ s[j].unit = u /\ s[j].ok
               /\ configs \subseteq s[j].configs
               /\ \A l \in (j + 1) .. (k - 1) : ~ (s[l].op = "program" /\ s[l].unit = u)
        Slept(k, configs) ==
            \E j \in 1 .. (k - 1) :
               /\ s[j].op = "sleep" /\ configs \subseteq s[j].configs
               /\ \A l \in (j + 1) .. (k - 1) : s[l].op # "program"
    IN  /\ \A k \in 1 .. Len(s) :
             s[k].op \in { "read", "record" } =>
                /\ \A u \in measurement.units : Programmed(k, s[k].configs, u)
                /\ Slept(k, s[k].configs)
        /\ \A k, l \in 1 .. Len(s) :
             ( s[k].op = "program" /\ ~ s[k].ok /\ s[l].op = "record" ) =>
                s[l].configs \cap s[k].configs = {}

\* A collection that recorded one configuration and failed to program a later one
C35_Witness ==
    /\ \E k \in 1 .. Len(measurement.steps) : measurement.steps[k].op = "record"
    /\ \E k \in 1 .. Len(measurement.steps) :
          measurement.steps[k].op = "program" /\ ~ measurement.steps[k].ok

\* C37: find_group_bus returns the socket-th matching bus in scan order
\* (records in table order, buses ascending within a record), or an error when
\* the socket index is not below the number of matches; and an answer from the
\* cache is the answer a fresh scan of the same table gives.
C37_SocketthMatchMemoized ==
    busScan.call.op = "find_group_bus" =>
        LET q == busScan.call.config_addr
            records == busScan.self.records
            matches ==
                { m \in UNION { { <<i, b>> : b \in records[i].start_bus .. records[i].end_bus } :
                                  i \in 1 .. Len(records) } :
                    validate_pci_address(busScan.population,
                                         records[m[1]].pci_segment_group, m[2], q.device_id) }
            Before(a, b) == a[1] < b[1] \/ (a[1] = b[1] /\ a[2] < b[2])
            fresh == Mcfg_find_group_bus([ busScan.self EXCEPT !.group_bus_map = << >> ],
                                         busScan.population, q)
        IN  /\ busScan.call.ok = fresh.ok
            /\ busScan.call.addr = fresh.addr
            /\ IF q.socket < Cardinality(matches)
               THEN /\ busScan.call.ok
                    /\ \E m \in matches :
                          /\ Cardinality({ n \in matches : Before(n, m) }) = q.socket
                          /\ busScan.call.addr =
                               [ group_number |-> records[m[1]].pci_segment_group,
                                 bus |-> m[2], device |-> q.device, function |-> q.function ]
               ELSE ~ busScan.call.ok

\* A request for the second match that was answered from the cache
C37_Witness ==
    /\ busScan.call.op = "find_group_bus"
    /\ busScan.call.cached
    /\ busScan.call.config_addr.socket = 1
    /\ Len(busScan.self.records) = 2

====
